---- MODULE Spec2Model ----
(***************************************************************************)
(* kersplunk: the buffering / flush engine of src/src/Logger.ts.           *)
(*                                                                         *)
(* Strings are sequences of character codes.  Time is a discrete clock in  *)
(* milliseconds; timers are the entries of the event loop's timer list and *)
(* fire at their due time (a timer that is due fires before the clock      *)
(* advances, as under jest's fake timers).  A fetch() call is a request in *)
(* flight that settles (resolves or rejects) at an arbitrary later step.   *)
(***************************************************************************)
EXTENDS Integers, Sequences, FiniteSets, TLC

(* ---------------------------- bounds ----------------------------------- *)
MaxLogs == 3          \* log calls made in one behaviour (see LogCap)
MaxTime == 3          \* the clock stops here
MaxFails == 1         \* rejected fetch() calls in one behaviour
MaxBufferCfg == 3     \* config.maxBuffer
MaxThrottle == 2      \* config.throttleDuration
MaxRetryDur == 1      \* config.autoRetryDuration
MaxMutations == 1     \* assignments to the details object in one behaviour
MaxApiCalls == 4      \* calls of Logger's static methods in one behaviour
MaxEvents == 2        \* envelopes recorded in one behaviour

\* the eventName argument of the k-th log call: "a", "b", "c", ...
EventName(k) == 96 + k
NL == 10                   \* '\n'

VARIABLES
  config,         \* Logger._config (the fields the engine reads); metaTime is
                  \* splunkMeta.time, -1 when the user gives none
  buffer,         \* Logger._buffer: sequence of serialized records
  bufferTimeout,  \* Logger._bufferTimeout: 0 (undefined) or a timer handle
  timers,         \* pending setTimeout entries of the event loop
  inflight,       \* fetch() calls that have not settled yet
  promises,       \* the promise of every _flushBodyWithRetry call, in call
                  \* order (as requests): "pending", "resolved" or "rejected";
                  \* flush() awaits the one of its first attempt
  now,            \* Date.now()
  requests,       \* history: every fetch() call issued, in order
  logged,         \* history: every record appended by a log call, in order
  calls,          \* history: number of log calls made
  fails,          \* history: number of rejected fetch() calls
  lastLogAt,      \* history: time of the most recent log call whose record is
                  \* still in the buffer (0 while the buffer is empty)
  firstLogAt,     \* history: time the buffer became non-empty (0 while empty)
  settled,        \* history: the promise returned by the last flush() call of
                  \* the application was already resolved when it returned
  succeeded,      \* history: the attempts whose fetch() promise resolved
  failure,        \* history: why the most recent failed fetch() call failed
  intercepted,    \* history: the event names the interceptor was called with
  sent,           \* history: the arguments of every fetch() call, in order
  dropped,        \* history: the event names of the log calls made while the
                  \* logger was disabled
  details,        \* the application's details object {foo: ...}, passed to
                  \* every log call: the value of its field, 0 at first
  loggers,        \* the objects made by Logger.create, in creation order; a
                  \* logger is known by its position
  singleton,      \* global.__kersplunkSingleton: 0 (undefined) or a logger
  trace,          \* history: the calls of the static methods and what each
                  \* returned
  called,         \* history: the last call of a logging method and the event
                  \* _log built for it
  splunkMeta,     \* config.splunkMeta as an object or a factory (the engine's
                  \* config.metaTime is its time)
  interceptor,    \* logger.interceptor
  recorded,       \* history: the envelopes _log has serialized, with the
                  \* inputs of each call
  heap,           \* the configuration objects, by reference: heap[1] is the
                  \* module's DEFAULT_CONFIG, the others are the _config
                  \* objects the constructor made
  inst,           \* the Logger instances of an application that uses
                  \* several, in creation order: the fields of each, with
                  \* _config as a reference into heap
  globalSingleton,\* global.__kersplunkSingleton for these instances: 0
                  \* (undefined) or an instance
  returned        \* history: the last call of a static method on these
                  \* instances, its arguments and the instance it returned

engineVars == <<config, buffer, bufferTimeout, timers, inflight, promises, intercepted, sent, now,
                requests, logged, calls, fails, lastLogAt, firstLogAt, settled, succeeded, failure, dropped, details>>

apiVars == <<loggers, singleton, trace, called>>

eventVars == <<splunkMeta, interceptor, recorded>>

instVars == <<heap, inst, globalSingleton, returned>>

vars == <<engineVars, apiVars, eventVars, instVars>>

(* ------------------------- pure functions ------------------------------ *)
RECURSIVE Digits(_)
Digits(n) == IF n < 10 THEN <<48 + n>> ELSE Digits(n \div 10) \o <<48 + (n % 10)>>

RECURSIVE StripZeros(_)
StripZeros(s) ==
  IF s # <<>> /\ s[Len(s)] = 48 THEN StripZeros(SubSeq(s, 1, Len(s) - 1)) ELSE s

\* JSON.stringify(Date.now() / 1000): whole seconds, then the millisecond
\* fraction without trailing zeros (12345 -> "12.345", 12000 -> "12").
TimeString(ms) ==
  LET m == ms % 1000
      frac == StripZeros(<<48 + (m \div 100), 48 + ((m \div 10) % 10), 48 + (m % 10)>>)
  IN  Digits(ms \div 1000) \o (IF frac = <<>> THEN <<>> ELSE <<46>> \o frac)

\* JSON.stringify({...meta, event}) reduced to the fields that vary here:
\* the time, the event name and the value found in the details object.
\* JSON text never contains a raw newline.
Stringify(time, eventName, foo) ==
  <<123>> \o TimeString(time) \o <<44, eventName, 44>> \o Digits(foo) \o <<125>>

\* where the serialized value of the details field starts in a record
FooAt(rec) == 1 + CHOOSE k \in 1..Len(rec) : rec[k] = 44 /\ \A j \in (k+1)..Len(rec) : rec[j] # 44

\* the value of the details field as serialized in a record
FooOf(rec) == SubSeq(rec, FooAt(rec), Len(rec) - 1)

\* Array.prototype.join('\n')
RECURSIVE Join(_)
Join(recs) ==
  IF Len(recs) = 0 THEN <<>>
  ELSE IF Len(recs) = 1 THEN recs[1]
  ELSE recs[1] \o <<NL>> \o Join(Tail(recs))

\* String.prototype.split('\n'), as the tests' interceptLogs does
RECURSIVE Split(_)
Split(str) ==
  IF \E i \in 1..Len(str) : str[i] = NL
  THEN LET i == CHOOSE k \in 1..Len(str) : str[k] = NL /\ \A j \in 1..(k-1) : str[j] # NL
       IN  <<SubSeq(str, 1, i - 1)>> \o Split(SubSeq(str, i + 1, Len(str)))
  ELSE <<str>>

RECURSIVE Concat(_)
Concat(ss) == IF Len(ss) = 0 THEN <<>> ELSE Head(ss) \o Concat(Tail(ss))

(* --------------------------- the transport ----------------------------- *)
\* How a call of the transport (./fetch) can end: accepted by the server,
\* no response at all, or a response with a 4xx/5xx status.
FetchOutcomes == {"ok", "networkError", "httpError"}

\* The transport reports a failure, that is, the promise awaited in
\* _flushBodyWithRetry rejects, for a network error and for a non-success
\* response alike.
FetchRejects(outcome) == outcome \in {"networkError", "httpError"}

(* ------------------- the engine, on a state record --------------------- *)
Cur == [config |-> config, buffer |-> buffer, bufferTimeout |-> bufferTimeout,
        timers |-> timers, inflight |-> inflight, promises |-> promises,
        intercepted |-> intercepted, sent |-> sent, details |-> details,
        requests |-> requests, settled |-> TRUE]

\* A timer handle is fresh: it differs from the handle of every pending
\* timer and from the handle the logger still holds.
NewHandle(S) ==
  LET used == {t.id : t \in S.timers} \cup {S.bufferTimeout}
  IN  CHOOSE h \in 1..(Cardinality(used) + 1) :
        h \notin used /\ \A g \in 1..(h - 1) : g \in used

\* setTimeout(cb, delay); the handle returned is NewHandle(S)
SetTimeout(S, kind, delay, body, batch, attempt) ==
  [S EXCEPT !.timers = @ \cup {[id |-> NewHandle(S), due |-> now + delay, kind |-> kind,
                                body |-> body, batch |-> batch, attempt |-> attempt]}]

\* clearTimeout(handle)
ClearTimeout(S, h) == [S EXCEPT !.timers = {t \in @ : t.id # h}]

\* _startOrResetBufferTimeout that keeps a timer that is already armed
StartOrResetBufferTimeout_NoReset(S) ==
  IF S.bufferTimeout # 0 THEN S
  ELSE [SetTimeout(S, "flush", S.config.throttleDuration, <<>>, 0, 0)
          EXCEPT !.bufferTimeout = NewHandle(S)]

\* _startOrResetBufferTimeout that clears the old timer and arms none
StartOrResetBufferTimeout_NoArm(S) ==
  IF S.bufferTimeout # 0
  THEN [ClearTimeout(S, S.bufferTimeout) EXCEPT !.bufferTimeout = 0]
  ELSE [SetTimeout(S, "flush", S.config.throttleDuration, <<>>, 0, 0)
          EXCEPT !.bufferTimeout = NewHandle(S)]

\* _startOrResetBufferTimeout that arms a timer without clearing the old one
StartOrResetBufferTimeout_KeepsOld(S) ==
  [SetTimeout(S, "flush", S.config.throttleDuration, <<>>, 0, 0)
     EXCEPT !.bufferTimeout = NewHandle(S)]

\* Logger._startOrResetBufferTimeout
StartOrResetBufferTimeout(S) ==
  LET S1 == IF S.bufferTimeout # 0 THEN ClearTimeout(S, S.bufferTimeout) ELSE S
  IN  [SetTimeout(S1, "flush", S1.config.throttleDuration, <<>>, 0, 0)
         EXCEPT !.bufferTimeout = NewHandle(S1)]

\* _clearBufferTimeout that clears every pending timer of the logger
ClearBufferTimeout_ClearsAll(S) ==
  IF S.bufferTimeout # 0
  THEN [S EXCEPT !.timers = {}, !.bufferTimeout = 0]
  ELSE S

\* _clearBufferTimeout that forgets the handle without clearing the timer
ClearBufferTimeout_LeavesTimer(S) ==
  IF S.bufferTimeout # 0
  THEN [S EXCEPT !.bufferTimeout = 0]
  ELSE S

\* Logger._clearBufferTimeout
ClearBufferTimeout(S) ==
  IF S.bufferTimeout # 0
  THEN [ClearTimeout(S, S.bufferTimeout) EXCEPT !.bufferTimeout = 0]
  ELSE S

\* fetch() arguments with the bare token as the Authorization header
FetchArgs_BareToken(S, body) ==
  [url |-> S.config.splunkUrl, method |-> "POST",
   headers |-> {<<"Authorization", S.config.authToken>>}, body |-> body]

\* the arguments _flushBodyWithRetry passes to fetch()
FetchArgs(S, body) ==
  [url |-> S.config.splunkUrl, method |-> "POST",
   headers |-> {<<"Authorization", "Splunk " \o S.config.authToken>>}, body |-> body]

\* Logger._flushBodyWithRetry up to its await: the fetch() call is issued
\* synchronously, so the caller's promise is not settled on return.
FlushBodyWithRetry(S, body, batch, attempt) ==
  [S EXCEPT !.inflight = @ \cup {[body |-> body, batch |-> batch, attempt |-> attempt]},
            !.requests = Append(@, [body |-> body, batch |-> batch, attempt |-> attempt]),
            !.promises = Append(@, "pending"),
            !.sent = Append(@, FetchArgs(S, body)),
            !.settled = FALSE]

\* batches are numbered in the order flush() captures them
NextBatch(S) == Cardinality({i \in 1..Len(S.requests) : S.requests[i].attempt = 1}) + 1

\* flush() that sends the buffer without resetting it
FlushBuffer_KeepsBuffer(S) ==
  LET S1 == IF S.bufferTimeout # 0
            THEN [ClearTimeout(S, S.bufferTimeout) EXCEPT !.bufferTimeout = 0]
            ELSE S
  IN  IF Len(S1.buffer) = 0
      THEN [S1 EXCEPT !.settled = TRUE]
      ELSE FlushBodyWithRetry(S1, Join(S1.buffer), NextBatch(S1), 1)

\* flush() without the empty-buffer return
FlushBuffer_SendsEmpty(S) ==
  LET S1 == ClearBufferTimeout(S)
      S2 == [S1 EXCEPT !.buffer = <<>>]
  IN  FlushBodyWithRetry(S2, Join(S1.buffer), NextBatch(S2), 1)

\* flush() that serializes at flush time: every record gets the value the
\* details object has now
FlushBuffer_SerializesLate(S) ==
  LET S1 == ClearBufferTimeout(S)
      late == [i \in 1..Len(S1.buffer) |->
                 SubSeq(S1.buffer[i], 1, FooAt(S1.buffer[i]) - 1) \o Digits(S.details) \o <<125>>]
  IN  IF Len(S1.buffer) = 0
      THEN [S1 EXCEPT !.settled = TRUE]
      ELSE FlushBodyWithRetry([S1 EXCEPT !.buffer = <<>>], Join(late), NextBatch(S1), 1)

\* flush() that waits while a request is in flight: it leaves the buffer
\* as it is
FlushBuffer_WaitsForInflight(S) ==
  LET S1 == ClearBufferTimeout(S)
  IN  IF Len(S1.buffer) = 0
      THEN [S1 EXCEPT !.settled = TRUE]
      ELSE IF S1.inflight # {}
      THEN S1
      ELSE FlushBodyWithRetry([S1 EXCEPT !.buffer = <<>>], Join(S1.buffer), NextBatch(S1), 1)

\* flush() that sends the newest record first, as a batch of its own
FlushBuffer_SendsNewestFirst(S) ==
  LET S1 == ClearBufferTimeout(S)
      S2 == [S1 EXCEPT !.buffer = <<>>]
      n == Len(S1.buffer)
  IN  IF n = 0
      THEN [S1 EXCEPT !.settled = TRUE]
      ELSE IF n = 1
      THEN FlushBodyWithRetry(S2, Join(S1.buffer), NextBatch(S2), 1)
      ELSE LET S3 == FlushBodyWithRetry(S2, Join(<<S1.buffer[n]>>), NextBatch(S2), 1)
           IN  FlushBodyWithRetry(S3, Join(SubSeq(S1.buffer, 1, n - 1)), NextBatch(S3), 1)

\* flush() without _clearBufferTimeout
FlushBuffer_KeepsTimer(S) ==
  IF Len(S.buffer) = 0
  THEN [S EXCEPT !.settled = TRUE]
  ELSE FlushBodyWithRetry([S EXCEPT !.buffer = <<>>], Join(S.buffer), NextBatch(S), 1)

\* Logger.flush up to its await.  settled: the promise returned is already
\* resolved when flush() returns.
FlushBuffer(S) ==
  LET S1 == ClearBufferTimeout(S)
  IN  IF Len(S1.buffer) = 0
      THEN [S1 EXCEPT !.settled = TRUE]
      ELSE LET body == Join(S1.buffer)
               S2 == [S1 EXCEPT !.buffer = <<>>]
           IN  FlushBodyWithRetry(S2, body, NextBatch(S2), 1)

\* Logger._buildSplunkMeta: the time of the envelope
BuildSplunkMeta(S) == IF S.config.metaTime = -1 THEN now ELSE S.config.metaTime

\* _log that replaces the buffer by the new record instead of appending
LogEvent_Overwrites(S, eventName) ==
  IF ~S.config.enabled THEN S
  ELSE LET S1 == [S EXCEPT !.buffer = <<Stringify(BuildSplunkMeta(S), eventName, S.details)>>]
           S2 == StartOrResetBufferTimeout(S1)
       IN  IF Len(S2.buffer) >= S2.config.maxBuffer
           THEN FlushBuffer(S2)
           ELSE S2

\* _log that flushes one record early (maxBuffer - 1)
LogEvent_FlushesEarly(S, eventName) ==
  IF ~S.config.enabled THEN S
  ELSE LET S1 == [S EXCEPT !.buffer = @ \o <<Stringify(BuildSplunkMeta(S), eventName, S.details)>>]
           S2 == StartOrResetBufferTimeout(S1)
       IN  IF Len(S2.buffer) >= S2.config.maxBuffer - 1
           THEN FlushBuffer(S2)
           ELSE S2

\* _log that flushes only when the buffer exceeds maxBuffer
LogEvent_FlushesLate(S, eventName) ==
  IF ~S.config.enabled THEN S
  ELSE LET S1 == [S EXCEPT !.buffer = @ \o <<Stringify(BuildSplunkMeta(S), eventName, S.details)>>]
           S2 == StartOrResetBufferTimeout(S1)
       IN  IF Len(S2.buffer) > S2.config.maxBuffer
           THEN FlushBuffer(S2)
           ELSE S2

\* this.interceptor ? this.interceptor(event) : event
Intercept(S, eventName) ==
  IF S.config.interceptor # "none"
  THEN [S EXCEPT !.intercepted = Append(@, eventName)]
  ELSE S

\* _log without the threshold flush
LogEvent_NoThreshold(S, eventName) ==
  IF ~S.config.enabled THEN S
  ELSE LET S0 == Intercept(S, eventName)
           S1 == [S0 EXCEPT !.buffer = @ \o <<Stringify(BuildSplunkMeta(S), eventName, S.details)>>]
       IN  StartOrResetBufferTimeout(S1)

\* _log without the enabled check
LogEvent_IgnoresEnabled(S, eventName) ==
  LET S0 == Intercept(S, eventName)
      S1 == [S0 EXCEPT !.buffer = @ \o <<Stringify(BuildSplunkMeta(S), eventName, S.details)>>]
      S2 == StartOrResetBufferTimeout(S1)
  IN  IF Len(S2.buffer) >= S2.config.maxBuffer
      THEN FlushBuffer(S2)
      ELSE S2

\* Logger._log, from the enabled check on
LogEvent(S, eventName) ==
  IF ~S.config.enabled THEN S
  ELSE LET S0 == Intercept(S, eventName)
           S1 == [S0 EXCEPT !.buffer = @ \o <<Stringify(BuildSplunkMeta(S), eventName, S.details)>>]
           S2 == StartOrResetBufferTimeout(S1)
       IN  IF Len(S2.buffer) >= S2.config.maxBuffer
           THEN FlushBuffer(S2)
           ELSE S2

\* the places where building the record can throw, in the order _log
\* reaches them
ThrowStages == <<"errorFormatter", "interceptor", "splunkMeta", "stringify">>

\* _log that arms the flush timer before it builds the record
LogEventThrows_ArmsFirst(S, eventName, stage) ==
  IF ~S.config.enabled THEN S
  ELSE LET S0 == StartOrResetBufferTimeout(S)
       IN  IF stage = ThrowStages[1] THEN S0 ELSE Intercept(S0, eventName)

\* Logger._log when building the record throws at the given stage: the
\* errorFormatter runs first, then the interceptor, then _buildSplunkMeta
\* and JSON.stringify inside the expression whose value would be assigned
\* to _buffer; the exception leaves _log before that assignment, before
\* _startOrResetBufferTimeout and before the threshold test.  The
\* interceptor has been called unless the errorFormatter threw.
LogEventThrows(S, eventName, stage) ==
  IF ~S.config.enabled THEN S
  ELSE IF stage = ThrowStages[1] THEN S ELSE Intercept(S, eventName)

\* a catch block that never retries
CatchFetchError_NeverRetries(S, r) == S

\* a catch block that retries after throttleDuration
CatchFetchError_WrongDelay(S, r) ==
  IF S.config.autoRetry
  THEN SetTimeout(S, "retry", S.config.throttleDuration, r.body, r.batch, r.attempt + 1)
  ELSE S

\* a catch block that looks at the error and retries network errors only
CatchFetchError_OnlyNetworkErrors(S, r) ==
  IF S.config.autoRetry /\ r.cause = "networkError"
  THEN SetTimeout(S, "retry", S.config.autoRetryDuration, r.body, r.batch, r.attempt + 1)
  ELSE S

\* a catch block that retries whatever autoRetry says
CatchFetchError_AlwaysRetries(S, r) ==
  SetTimeout(S, "retry", S.config.autoRetryDuration, r.body, r.batch, r.attempt + 1)

\* a catch block whose delay grows with the number of the attempt
CatchFetchError_BacksOff(S, r) ==
  IF S.config.autoRetry
  THEN SetTimeout(S, "retry", S.config.autoRetryDuration * r.attempt, r.body, r.batch, r.attempt + 1)
  ELSE S

\* a catch block that keeps retrying a batch it has retried before
CatchFetchError_OnceRetriedAlways(S, r) ==
  IF S.config.autoRetry \/ r.attempt > 1
  THEN SetTimeout(S, "retry", S.config.autoRetryDuration, r.body, r.batch, r.attempt + 1)
  ELSE S

\* a catch block that adds the rejected body to a retry that is already
\* pending instead of scheduling its own
CatchFetchError_MergesRetries(S, r) ==
  IF S.config.autoRetry
  THEN IF \E t \in S.timers : t.kind = "retry"
       THEN LET t == CHOOSE u \in S.timers : u.kind = "retry"
            IN  [S EXCEPT !.timers = (@ \ {t}) \cup {[t EXCEPT !.body = @ \o <<NL>> \o r.body]}]
       ELSE SetTimeout(S, "retry", S.config.autoRetryDuration, r.body, r.batch, r.attempt + 1)
  ELSE S

\* a catch block that schedules the retry twice
CatchFetchError_SchedulesTwo(S, r) ==
  IF S.config.autoRetry
  THEN SetTimeout(SetTimeout(S, "retry", S.config.autoRetryDuration, r.body, r.batch, r.attempt + 1),
                  "retry", S.config.autoRetryDuration, r.body, r.batch, r.attempt + 1)
  ELSE S

\* the catch block of Logger._flushBodyWithRetry, for the rejected call r
CatchFetchError(S, r) ==
  IF S.config.autoRetry
  THEN SetTimeout(S, "retry", S.config.autoRetryDuration, r.body, r.batch, r.attempt + 1)
  ELSE S

\* the position, in requests and promises, of the call r in flight
CallOf(S, r) ==
  CHOOSE i \in 1..Len(S.requests) :
    S.requests[i].batch = r.batch /\ S.requests[i].attempt = r.attempt

\* _flushBodyWithRetry without try/catch: the rejection reaches the caller
FlushBodyContinue_NoCatch(S, r, outcome) ==
  LET S1 == [S EXCEPT !.inflight = @ \ {r}]
  IN  [S1 EXCEPT !.promises[CallOf(S, r)] =
                   IF FetchRejects(outcome) THEN "rejected" ELSE "resolved"]

\* _flushBodyWithRetry whose catch block awaits the retry it schedules
FlushBodyContinue_AwaitsRetry(S, r, outcome) ==
  LET S1 == [S EXCEPT !.inflight = @ \ {r}]
      e == [body |-> r.body, batch |-> r.batch, attempt |-> r.attempt, cause |-> outcome]
  IN  IF FetchRejects(outcome) /\ S.config.autoRetry
      THEN CatchFetchError(S1, e)
      ELSE [S1 EXCEPT !.promises[CallOf(S, r)] = "resolved"]

\* Logger._flushBodyWithRetry from its await on, when the fetch() call r
\* settles with the given outcome: a rejection is caught, and in either
\* case the function returns, which resolves its promise
FlushBodyContinue(S, r, outcome) ==
  LET S1 == [S EXCEPT !.inflight = @ \ {r}]
      e == [body |-> r.body, batch |-> r.batch, attempt |-> r.attempt, cause |-> outcome]
      S2 == IF FetchRejects(outcome) THEN CatchFetchError(S1, e) ELSE S1
  IN  [S2 EXCEPT !.promises[CallOf(S, r)] = "resolved"]

Commit(S) ==
  /\ config' = S.config
  /\ buffer' = S.buffer
  /\ bufferTimeout' = S.bufferTimeout
  /\ timers' = S.timers
  /\ inflight' = S.inflight
  /\ promises' = S.promises
  /\ intercepted' = S.intercepted
  /\ sent' = S.sent
  /\ requests' = S.requests

(* ------------------------ the static methods --------------------------- *)
DEFAULT_LOG_TYPES == <<"debug", "info", "warn", "error">>

\* An object is the set of its <<key, value>> properties.
\* {...base, ...over}
Spread(base, over) == {q \in base : \A o \in over : o[1] # q[1]} \cup over

\* obj[key], "undefined" when obj has no such property
Get(obj, key) == IF \E q \in obj : q[1] = key
                 THEN (CHOOSE q \in obj : q[1] = key)[2]
                 ELSE "undefined"

\* DEFAULT_CONFIG.errorFormatter
ErrorFormatter(d) ==
  IF d.isError
  THEN {<<"name", Get(d.props, "name")>>, <<"message", Get(d.props, "message")>>,
        <<"stack", Get(d.props, "stack")>>}
  ELSE d.props

\* the event _log builds: {logType, eventName, ...errorFormatter(details)}
BuildEvent(logType, eventName, d) ==
  Spread({<<"logType", logType>>, <<"eventName", eventName>>}, ErrorFormatter(d))

\* Logger.create: the new logger with one logging method per log type;
\* each method is the closure that passes its log type to _log
CreateLogger(logTypes) ==
  LET finalLogTypes == IF Len(logTypes) # 0 THEN logTypes ELSE DEFAULT_LOG_TYPES
  IN  [given |-> logTypes,
       methods |-> {<<finalLogTypes[i], finalLogTypes[i]>> : i \in 1..Len(finalLogTypes)}]

NoCall == [method |-> "", eventName |-> "", details |-> [isError |-> FALSE, props |-> {}],
           event |-> {}]

\* the module's DEFAULT_CONFIG object (the fields the engine reads)
DEFAULT_CONFIG ==
  [maxBuffer |-> 50, throttleDuration |-> 250, autoRetry |-> TRUE,
   autoRetryDuration |-> 1000, enabled |-> TRUE]

\* {...a, ...b} for configuration objects
ObjectSpread(a, b) ==
  [k \in (DOMAIN a) \cup (DOMAIN b) |-> IF k \in DOMAIN b THEN b[k] ELSE a[k]]

\* a constructor that writes the user's configuration into DEFAULT_CONFIG
\* and uses that object: Object.assign(DEFAULT_CONFIG, config)
Construct_SharesDefault(H, c) ==
  [heap |-> [H EXCEPT ![1] = ObjectSpread(H[1], c)], ref |-> 1]

\* the constructor's this._config = {...DEFAULT_CONFIG, ...config}: a new
\* object on the heap H; ref is the reference the instance holds
Construct(H, c) ==
  [heap |-> Append(H, ObjectSpread(H[1], c)), ref |-> Len(H) + 1]

\* the instance Logger.create returns: the field initializers, the
\* constructor's _config and the log-type methods
NewInstance(ref, logTypes) ==
  [cfg |-> ref, buffer |-> <<>>, bufferTimeout |-> 0, timers |-> {}, inflight |-> {},
   promises |-> <<>>, intercepted |-> <<>>, sent |-> <<>>, details |-> 0,
   requests |-> <<>>, settled |-> TRUE,
   methods |-> CreateLogger(logTypes).methods, calls |-> 0, fails |-> 0]

NoReturn == [op |-> "", args |-> <<>>, logger |-> 0, seq |-> 0]

(* --------------------------- the envelope ------------------------------ *)
\* version.json, written from package.json
version == "0.0.12"

\* the object a splunkMeta factory returns when called at time t
\* (milliseconds): "fixed" is () => ({time: 123, host: 'my host'}), "clock"
\* is () => ({host: 'my host', time: Date.now() / 1000 + 1})
FactoryResult(name, t) ==
  IF name = "fixed"
  THEN {<<"time", 123000>>, <<"host", "my host">>}
  ELSE {<<"host", "my host">>, <<"time", t + 1000>>}

\* typeof splunkMeta === 'function' ? splunkMeta() : splunkMeta, with {}
\* for undefined (it is only spread and tested)
MetaOf(m, t) ==
  IF m.kind = "factory" THEN FactoryResult(m.name, t)
  ELSE IF m.kind = "static" THEN m.value
  ELSE {}

\* _buildSplunkMeta with the defaults spread after the user's meta
SplunkMetaObject_DefaultsWin(m, t) ==
  LET meta == MetaOf(m, t)
      fields == IF \E q \in meta : q[1] = "fields" THEN Get(meta, "fields") ELSE {}
  IN  Spread(Spread(meta, {<<"time", t>>, <<"sourcetype", "_json">>,
                           <<"source", "kersplunk-" \o version>>}),
             {<<"fields", Spread(fields, {<<"kersplunk", version>>})>>})

\* Logger._buildSplunkMeta as an object, at time t.  Times are kept in
\* milliseconds: the time 123 of the tests is 123000 here.
SplunkMetaObject(m, t) ==
  LET meta == MetaOf(m, t)
      fields == IF \E q \in meta : q[1] = "fields" THEN Get(meta, "fields") ELSE {}
  IN  Spread(Spread({<<"time", t>>, <<"sourcetype", "_json">>,
                     <<"source", "kersplunk-" \o version>>}, meta),
             {<<"fields", Spread(fields, {<<"kersplunk", version>>})>>})

\* what an interceptor returns for the event e: "addBar" is
\* e => ({...e, newDetails: 'bar'}), "onlyName" is
\* e => ({eventName: e.eventName})
InterceptorResult(name, e) ==
  IF name = "addBar"
  THEN Spread(e, {<<"newDetails", "bar">>})
  ELSE {<<"eventName", Get(e, "eventName")>>}

FinalEvent_SkipsInterceptor(icpt, e) == e

\* this.interceptor ? this.interceptor(event) : event
FinalEvent(icpt, e) == IF icpt # "none" THEN InterceptorResult(icpt, e) ELSE e

\* the object _log hands to JSON.stringify: {...meta, event: finalEvent}
EnvelopeOf(m, t, icpt, logType, eventName, d) ==
  Spread(SplunkMetaObject(m, t),
         {<<"event", FinalEvent(icpt, BuildEvent(logType, eventName, d))>>})

(* ----------------------------- actions --------------------------------- *)
\* The configurations of the logger.  splunkMeta is {time: 0}: the user's
\* time overrides Date.now() in every envelope, so that records differ by
\* their event name only.  The interceptor is a spy: it is called with the
\* event and returns it as it is.
Configs ==
  [maxBuffer : {MaxBufferCfg}, throttleDuration : {MaxThrottle},
   autoRetry : BOOLEAN, autoRetryDuration : {MaxRetryDur}, enabled : {TRUE},
   metaTime : {0}, interceptor : {"spy"},
   splunkUrl : {"http://foo-bar"}, authToken : {"FOO-TOKEN"}]

\* the logger after Logger.create(cfg), for a cfg of the set cfgs with a
\* splunkMeta of the set metas
InitLogger(cfgs, metas, icpts) ==
  /\ config \in cfgs
  /\ buffer = <<>>
  /\ bufferTimeout = 0
  /\ timers = {}
  /\ inflight = {}
  /\ promises = <<>>
  /\ now = 0
  /\ requests = <<>>
  /\ logged = <<>>
  /\ calls = 0
  /\ fails = 0
  /\ lastLogAt = 0
  /\ firstLogAt = 0
  /\ settled = TRUE
  /\ succeeded = {}
  /\ failure = "none"
  /\ intercepted = <<>>
  /\ sent = <<>>
  /\ dropped = {}
  /\ details = 0
  /\ loggers = <<>>
  /\ singleton = 0
  /\ trace = <<>>
  /\ called = NoCall
  /\ splunkMeta \in metas
  /\ interceptor \in icpts
  /\ recorded = <<>>
  /\ heap = <<DEFAULT_CONFIG>>
  /\ inst = <<>>
  /\ globalSingleton = 0
  /\ returned = NoReturn

\* the logger after Logger.create(cfg), for a cfg of the set cfgs
InitWith(cfgs) ==
  InitLogger(cfgs, {[kind |-> "static", value |-> {<<"time", 0>>}]}, {"none"})

Init == InitWith(Configs)

\* a timer that is due fires before the clock advances
DueTimers == {t \in timers : t.due <= now}

\* the history of the buffer's age follows the buffer
Age(S, first, last) ==
  /\ firstLogAt' = IF S.buffer = <<>> THEN 0 ELSE first
  /\ lastLogAt' = IF S.buffer = <<>> THEN 0 ELSE last

\* the log calls of one behaviour: MaxLogs, and one more under a
\* configuration whose maxBuffer is one smaller, to fill its buffer twice
LogCap == MaxLogs + (MaxBufferCfg - config.maxBuffer)

\* the rejections of one behaviour: MaxFails, and two more for the logger
\* with the slower flush timer, whose retries are followed further
FailCap == MaxFails + (IF config.throttleDuration > MaxThrottle THEN 2 ELSE 0)

\* logger.<logType>(eventName, details)
Log ==
  /\ calls < LogCap
  /\ calls' = calls + 1
  /\ LET S == LogEvent(Cur, EventName(calls + 1))
     IN  /\ Commit(S)
         /\ IF config.enabled
            THEN /\ logged' = Append(logged, Stringify(BuildSplunkMeta(Cur), EventName(calls + 1), details))
                 /\ Age(S, IF buffer = <<>> THEN now ELSE firstLogAt, now)
                 /\ dropped' = dropped
            ELSE /\ dropped' = dropped \cup {EventName(calls + 1)}
                 /\ UNCHANGED <<logged, firstLogAt, lastLogAt>>
  /\ UNCHANGED <<now, fails, settled, succeeded, failure, details>>
  /\ UNCHANGED <<apiVars, eventVars, instVars>>

\* logger.<logType>(eventName, details) that throws while the record is
\* built; the exception reaches the caller
LogThrow ==
  \E k \in 1..Len(ThrowStages) :
    /\ calls < LogCap
    /\ config.enabled
    /\ calls' = calls + 1
    /\ Commit(LogEventThrows(Cur, EventName(calls + 1), ThrowStages[k]))
    /\ UNCHANGED <<now, logged, fails, lastLogAt, firstLogAt, settled, succeeded, failure, dropped, details>>
    /\ UNCHANGED <<apiVars, eventVars, instVars>>

\* logger.flush() called by the application
Flush ==
  /\ LET S == FlushBuffer(Cur)
     IN  /\ Commit(S)
         /\ Age(S, firstLogAt, lastLogAt)
         /\ settled' = S.settled
  /\ UNCHANGED <<now, logged, calls, fails, succeeded, failure, dropped, details>>
  /\ UNCHANGED <<apiVars, eventVars, instVars>>

\* logger.enable()
Enable ==
  /\ ~config.enabled
  /\ config' = [config EXCEPT !.enabled = TRUE]
  /\ UNCHANGED <<buffer, bufferTimeout, timers, inflight, promises, intercepted, sent, now, requests,
                 logged, calls, fails, lastLogAt, firstLogAt, settled, succeeded, failure, dropped, details>>
  /\ UNCHANGED <<apiVars, eventVars, instVars>>

\* disable() that also drops what the logger holds: the buffer and its
\* flush timer
Disable_DropsBuffer ==
  /\ config.enabled
  /\ LET S == ClearBufferTimeout(Cur)
     IN  Commit([S EXCEPT !.config.enabled = FALSE, !.buffer = <<>>])
  /\ firstLogAt' = 0
  /\ lastLogAt' = 0
  /\ UNCHANGED <<now, logged, calls, fails, settled, succeeded, failure, dropped, details>>
  /\ UNCHANGED <<apiVars, eventVars, instVars>>

\* logger.disable()
Disable ==
  /\ config.enabled
  /\ config' = [config EXCEPT !.enabled = FALSE]
  /\ UNCHANGED <<buffer, bufferTimeout, timers, inflight, promises, intercepted, sent, now, requests,
                 logged, calls, fails, lastLogAt, firstLogAt, settled, succeeded, failure, dropped, details>>
  /\ UNCHANGED <<apiVars, eventVars, instVars>>

\* the event loop runs the callback of the earliest due timer
TimerFire ==
  \E t \in DueTimers :
    /\ \A u \in DueTimers : t.due < u.due \/ (t.due = u.due /\ t.id <= u.id)
    /\ LET S0 == [Cur EXCEPT !.timers = @ \ {t}]
           S == IF t.kind = "flush"
                THEN FlushBuffer(S0)
                ELSE FlushBodyWithRetry(S0, t.body, t.batch, t.attempt)
       IN  /\ Commit(S)
           /\ Age(S, firstLogAt, lastLogAt)
    /\ UNCHANGED <<now, logged, calls, fails, settled, succeeded, failure, dropped, details>>
    /\ UNCHANGED <<apiVars, eventVars, instVars>>

\* a resolved fetch() after which the batch is sent once more
FetchResolve_AlsoRetries ==
  \E r \in inflight :
    /\ succeeded' = succeeded \cup {[batch |-> r.batch, attempt |-> r.attempt]}
    /\ r.attempt <= MaxFails
    /\ Commit(SetTimeout([Cur EXCEPT !.inflight = @ \ {r}], "retry",
                         config.autoRetryDuration, r.body, r.batch, r.attempt + 1))
    /\ UNCHANGED <<now, logged, calls, fails, lastLogAt, firstLogAt, settled, failure, dropped, details>>
    /\ UNCHANGED <<apiVars, eventVars, instVars>>

\* a fetch() promise resolves: _flushBodyWithRetry returns
FetchResolve ==
  \E r \in inflight :
    /\ succeeded' = succeeded \cup {[batch |-> r.batch, attempt |-> r.attempt]}
    /\ Commit(FlushBodyContinue(Cur, r, "ok"))
    /\ UNCHANGED <<now, logged, calls, fails, lastLogAt, firstLogAt, settled, failure, dropped, details>>
    /\ UNCHANGED <<apiVars, eventVars, instVars>>

\* a fetch() promise rejects, for the cause c: the catch block of
\* _flushBodyWithRetry runs with the error
FetchReject ==
  \E r \in inflight, c \in {o \in FetchOutcomes : FetchRejects(o)} :
    /\ fails < FailCap
    /\ fails' = fails + 1
    /\ failure' = c
    /\ Commit(FlushBodyContinue(Cur, r, c))
    /\ UNCHANGED <<now, logged, calls, lastLogAt, firstLogAt, settled, succeeded, dropped, details>>
    /\ UNCHANGED <<apiVars, eventVars, instVars>>

\* one millisecond passes; no timer is due
Tick ==
  /\ now < MaxTime
  /\ DueTimers = {}
  /\ now' = now + 1
  /\ UNCHANGED <<config, buffer, bufferTimeout, timers, inflight, promises, intercepted, sent, requests,
                 logged, calls, fails, lastLogAt, firstLogAt, settled, succeeded, failure, dropped, details>>
  /\ UNCHANGED <<apiVars, eventVars, instVars>>

Next ==
  \/ Log
  \/ Flush
  \/ Enable
  \/ Disable
  \/ TimerFire
  \/ FetchResolve
  \/ FetchReject
  \/ Tick

Spec == Init /\ [][Next]_vars

\* the same logger configured with a smaller maxBuffer and without retries,
\* so that the log calls of one behaviour fill the buffer more than once
BurstConfigs ==
  [maxBuffer : {MaxBufferCfg - 1}, throttleDuration : {MaxThrottle},
   autoRetry : {FALSE}, autoRetryDuration : {MaxRetryDur}, enabled : {TRUE},
   metaTime : {0}, interceptor : {"spy"},
   splunkUrl : {"http://my-splunk-endpoint"}, authToken : {"MY-TOKEN"}]

InitBurst == InitWith(BurstConfigs)

SpecBurst == InitBurst /\ [][Next]_vars

\* the application assigns a new value to the field of the details object
\* it has passed to a log call (details.foo = 'new foo'), at most once per
\* log call
Mutate ==
  /\ details < MaxMutations
  /\ details < calls
  /\ details' = details + 1
  /\ UNCHANGED <<config, buffer, bufferTimeout, timers, inflight, promises, intercepted, sent,
                 now, requests, logged, calls, fails, lastLogAt, firstLogAt,
                 settled, succeeded, failure, dropped>>
  /\ UNCHANGED <<apiVars, eventVars, instVars>>

\* the log types an application passes to create and singleton
LogTypeLists == {<<>>, <<"happy", "sad">>}

\* Logger.create(config, ...logTypes)
Create ==
  \E logTypes \in LogTypeLists :
    /\ Len(trace) < MaxApiCalls
    /\ loggers' = Append(loggers, CreateLogger(logTypes))
    /\ trace' = Append(trace, [op |-> "create", logger |-> Len(loggers) + 1])
    /\ UNCHANGED <<singleton, called>>
    /\ UNCHANGED <<engineVars, eventVars, instVars>>

\* Logger.singleton that makes a logger on every call
Singleton_AlwaysCreates ==
  \E logTypes \in LogTypeLists :
    /\ Len(trace) < MaxApiCalls
    /\ loggers' = Append(loggers, CreateLogger(logTypes))
    /\ singleton' = Len(loggers) + 1
    /\ trace' = Append(trace, [op |-> "singleton", logger |-> singleton'])
    /\ UNCHANGED called
    /\ UNCHANGED <<engineVars, eventVars, instVars>>

\* Logger.singleton(config, ...logTypes)
Singleton ==
  \E logTypes \in LogTypeLists :
    /\ Len(trace) < MaxApiCalls
    /\ IF singleton # 0
       THEN UNCHANGED <<loggers, singleton>>
       ELSE /\ loggers' = Append(loggers, CreateLogger(logTypes))
            /\ singleton' = Len(loggers) + 1
    /\ trace' = Append(trace, [op |-> "singleton", logger |-> singleton'])
    /\ UNCHANGED called
    /\ UNCHANGED <<engineVars, eventVars, instVars>>

\* Logger.clearSingleton()
ClearSingleton ==
  /\ Len(trace) < MaxApiCalls
  /\ singleton' = 0
  /\ trace' = Append(trace, [op |-> "clear", logger |-> 0])
  /\ UNCHANGED <<loggers, called>>
  /\ UNCHANGED <<engineVars, eventVars, instVars>>

\* the details an application passes to a logging method: none, a plain
\* object, objects with a property named like a property of the event, an
\* Error, an object with an Error inside ({here: {my: err}}).  A property
\* value is a string or, for an object or an Error, a record like these.
DetailsInputs ==
  {[isError |-> FALSE, props |-> {}],
   [isError |-> FALSE, props |-> {<<"foo", "bar">>}],
   [isError |-> FALSE, props |-> {<<"logType", "other">>}],
   [isError |-> FALSE, props |-> {<<"eventName", "other">>}],
   [isError |-> TRUE, props |-> {<<"name", "Error">>, <<"message", "oops">>,
                                 <<"stack", "at x">>}],
   [isError |-> FALSE,
    props |-> {<<"here", [isError |-> FALSE,
                          props |-> {<<"my", [isError |-> TRUE,
                                              props |-> {<<"name", "Error">>,
                                                         <<"message", "Boom!">>,
                                                         <<"stack", "at y">>}]>>}]>>}]}

\* logger.<method>("evt", details), up to the event _log builds
Call ==
  \E i \in 1..Len(loggers), d \in DetailsInputs :
    \E m \in loggers[i].methods :
      /\ called' = [method |-> m[1], eventName |-> "evt", details |-> d,
                    event |-> BuildEvent(m[2], "evt", d)]
      /\ UNCHANGED <<loggers, singleton, trace>>
      /\ UNCHANGED <<engineVars, eventVars, instVars>>

NextApi ==
  \/ Create
  \/ Singleton
  \/ ClearSingleton
  \/ Call

SpecApi == Init /\ [][NextApi]_vars

\* the splunkMeta an application configures: none, objects and factories
MetaInputs ==
  {[kind |-> "none"],
   [kind |-> "static", value |-> {<<"time", 123000>>, <<"host", "my host">>}],
   [kind |-> "static", value |-> {<<"time", 123000>>, <<"host", "my host">>,
                                  <<"fields", {<<"foo", "bar">>}>>}],
   [kind |-> "static", value |-> {<<"source", "my app">>, <<"sourcetype", "custom">>,
                                  <<"fields", {<<"kersplunk", "mine">>}>>}],
   [kind |-> "factory", name |-> "fixed"],
   [kind |-> "factory", name |-> "clock"]}

\* the details of the log calls whose envelopes are recorded
RecordDetails == {d \in DetailsInputs : d.isError \/ \A q \in d.props : q[1] = "foo"}

\* logger.info("evt", details), up to the envelope _log serializes
Record ==
  \E d \in RecordDetails :
    /\ Len(recorded) < MaxEvents
    /\ recorded' = Append(recorded,
                          [at |-> now, interceptor |-> interceptor, details |-> d,
                           envelope |-> EnvelopeOf(splunkMeta, now, interceptor,
                                                   "info", "evt", d)])
    /\ UNCHANGED <<splunkMeta, interceptor>>
    /\ UNCHANGED <<engineVars, apiVars, instVars>>

InitMeta == InitLogger(Configs, MetaInputs, {"none"})

NextMeta ==
  \/ Record
  \/ Tick

SpecMeta == InitMeta /\ [][NextMeta]_vars

\* the interceptors of the tests' kind: none, one that adds a property, one
\* that keeps the event name only
Interceptors == {"none", "addBar", "onlyName"}

\* logger.interceptor = f
SetInterceptor ==
  \E f \in Interceptors :
    /\ f # interceptor
    /\ interceptor' = f
    /\ UNCHANGED <<splunkMeta, recorded>>
    /\ UNCHANGED <<engineVars, apiVars, instVars>>

\* a logger created with or without an interceptor in its configuration
InitIntercept ==
  InitLogger(Configs, {[kind |-> "static", value |-> {<<"time", 0>>}]}, Interceptors)

NextIntercept ==
  \/ Record
  \/ SetInterceptor

SpecIntercept == InitIntercept /\ [][NextIntercept]_vars

\* a write to logger._config.autoRetry; the field is private for the
\* TypeScript compiler only, the catch block reads it at run time
SetAutoRetry ==
  /\ config' = [config EXCEPT !.autoRetry = ~config.autoRetry]
  /\ UNCHANGED <<buffer, bufferTimeout, timers, inflight, promises, intercepted, sent, now, requests,
                 logged, calls, fails, lastLogAt, firstLogAt, settled, succeeded, failure, dropped, details>>
  /\ UNCHANGED <<apiVars, eventVars, instVars>>

\* a logger whose maxBuffer is not reached and whose flush timer is slower
\* than every retry, with autoRetry switched while batches are retried
RetryConfigs ==
  {[c EXCEPT !.maxBuffer = MaxBufferCfg + 1, !.throttleDuration = MaxThrottle + 1] :
     c \in Configs}

InitRetry == InitWith(RetryConfigs)

NextRetry ==
  \/ Log
  \/ Flush
  \/ Disable
  \/ SetAutoRetry
  \/ TimerFire
  \/ FetchResolve
  \/ FetchReject
  \/ Tick

SpecRetry == InitRetry /\ [][NextRetry]_vars

\* The clock of the model stops at MaxTime.  Where the claim is that
\* something happens in the end, a behaviour arms a timer only while the
\* timer can still fire: a log call while now + throttleDuration, and a
\* rejection while now + autoRetryDuration, does not pass MaxTime.
LogInTime ==
  /\ now + config.throttleDuration <= MaxTime
  /\ Log

FetchRejectInTime ==
  /\ now + config.autoRetryDuration <= MaxTime
  /\ FetchReject

\* the logger with a transport that accepts every call
NextLive ==
  \/ LogInTime
  \/ Flush
  \/ TimerFire
  \/ FetchResolve
  \/ Tick

\* Time passes and a due timer fires (the event loop runs its callback).
\* Log calls and flush() are up to the application.
SpecLive ==
  /\ Init
  /\ [][NextLive]_vars
  /\ WF_vars(Tick)
  /\ WF_vars(TimerFire)

\* a logger with autoRetry on and a maxBuffer that is not reached
LiveRetryConfigs ==
  {[c EXCEPT !.maxBuffer = MaxBufferCfg + 1] : c \in {k \in Configs : k.autoRetry}}

InitLiveRetry == InitWith(LiveRetryConfigs)

NextLiveRetry ==
  \/ LogInTime
  \/ Flush
  \/ TimerFire
  \/ FetchResolve
  \/ FetchRejectInTime
  \/ Tick

\* Time passes, a due timer fires and the transport answers every call;
\* it answers with a failure MaxFails times at most, so it does not fail
\* forever.
SpecLiveRetry ==
  /\ InitLiveRetry
  /\ [][NextLiveRetry]_vars
  /\ WF_vars(Tick)
  /\ WF_vars(TimerFire)
  /\ WF_vars(FetchResolve)

\* a logger some of whose log calls throw
NextThrow ==
  \/ Log
  \/ LogThrow
  \/ Flush
  \/ TimerFire
  \/ FetchResolve
  \/ Tick

SpecThrow == Init /\ [][NextThrow]_vars

(* ------------------------ several instances --------------------------- *)
\* the configurations an application passes to Logger.create and
\* Logger.singleton: they leave enabled to the default
UserConfigs ==
  {[k \in (DOMAIN c) \ {"enabled"} |-> c[k]] : c \in {k \in Configs : k.autoRetry} \cup BurstConfigs}

\* the k-th log call on instance i has an event name of its own
InstEventName(i, k) == 96 + 10 * i + k

\* instance i as the engine sees it: this, with this._config looked up
View(i) ==
  [config |-> heap[inst[i].cfg], buffer |-> inst[i].buffer,
   bufferTimeout |-> inst[i].bufferTimeout, timers |-> inst[i].timers,
   inflight |-> inst[i].inflight, promises |-> inst[i].promises,
   intercepted |-> inst[i].intercepted, sent |-> inst[i].sent,
   details |-> inst[i].details, requests |-> inst[i].requests, settled |-> TRUE]

\* the engine's writes to this and to the object this._config refers to
Put(i, S, c, f) ==
  /\ heap' = [heap EXCEPT ![inst[i].cfg] = S.config]
  /\ inst' = [inst EXCEPT ![i] =
               [cfg |-> @.cfg, methods |-> @.methods, calls |-> c, fails |-> f,
                buffer |-> S.buffer, bufferTimeout |-> S.bufferTimeout,
                timers |-> S.timers, inflight |-> S.inflight, promises |-> S.promises,
                intercepted |-> S.intercepted, sent |-> S.sent, details |-> S.details,
                requests |-> S.requests, settled |-> S.settled]]

\* what the actions on instances leave alone
InstFrame ==
  /\ UNCHANGED <<config, buffer, bufferTimeout, timers, inflight, promises, intercepted, sent, requests,
                 logged, calls, fails, lastLogAt, firstLogAt, settled, succeeded, failure, dropped, details>>
  /\ UNCHANGED <<apiVars, eventVars>>

RECURSIVE SumOver(_, _)
SumOver(seq, field) ==
  IF seq = <<>> THEN 0 ELSE Head(seq)[field] + SumOver(Tail(seq), field)

\* the log calls and the rejections of one behaviour, on all instances
\* together
InstCalls == SumOver(inst, "calls")
InstFails == SumOver(inst, "fails")

\* the configurations of an application that makes two loggers, the
\* second with the smaller maxBuffer and another endpoint
PairConfigs ==
  <<CHOOSE c \in UserConfigs : c.maxBuffer = MaxBufferCfg,
    CHOOSE c \in UserConfigs : c.maxBuffer = MaxBufferCfg - 1>>

\* Logger.create(config), for the first and for the second logger
InstCreate ==
  /\ Len(inst) < Len(PairConfigs)
  /\ LET made == Construct(heap, PairConfigs[Len(inst) + 1])
     IN  /\ heap' = made.heap
         /\ inst' = Append(inst, NewInstance(made.ref, <<>>))
  /\ returned' = [op |-> "create", args |-> <<PairConfigs[Len(inst) + 1]>>, logger |-> Len(inst) + 1,
                  seq |-> returned.seq + 1]
  /\ UNCHANGED <<now, globalSingleton>>
  /\ InstFrame

\* Logger.singleton that hands the later configuration to the instance
\* that exists
InstSingleton_Reconfigures ==
  \E c \in UserConfigs, logTypes \in LogTypeLists :
    /\ returned.seq < MaxApiCalls
    /\ IF globalSingleton # 0
       THEN /\ heap' = [heap EXCEPT ![inst[globalSingleton].cfg] = ObjectSpread(@, c)]
            /\ UNCHANGED <<inst, globalSingleton>>
       ELSE LET made == Construct(heap, c)
            IN  /\ heap' = made.heap
                /\ inst' = Append(inst, NewInstance(made.ref, logTypes))
                /\ globalSingleton' = Len(inst) + 1
    /\ returned' = [op |-> "singleton", args |-> <<c, logTypes>>, logger |-> globalSingleton',
                    seq |-> returned.seq + 1]
    /\ UNCHANGED now
    /\ InstFrame

\* Logger.singleton(config, ...logTypes)
InstSingleton ==
  \E c \in UserConfigs, logTypes \in LogTypeLists :
    /\ returned.seq < MaxApiCalls
    /\ IF globalSingleton # 0
       THEN UNCHANGED <<heap, inst, globalSingleton>>
       ELSE LET made == Construct(heap, c)
            IN  /\ heap' = made.heap
                /\ inst' = Append(inst, NewInstance(made.ref, logTypes))
                /\ globalSingleton' = Len(inst) + 1
    /\ returned' = [op |-> "singleton", args |-> <<c, logTypes>>, logger |-> globalSingleton',
                    seq |-> returned.seq + 1]
    /\ UNCHANGED now
    /\ InstFrame

\* Logger.clearSingleton()
InstClearSingleton ==
  /\ returned.seq < MaxApiCalls
  /\ globalSingleton' = 0
  /\ returned' = [op |-> "clear", args |-> <<>>, logger |-> 0, seq |-> returned.seq + 1]
  /\ UNCHANGED <<now, heap, inst>>
  /\ InstFrame

\* a logging method of instance i
InstLog ==
  \E i \in 1..Len(inst) :
    /\ InstCalls < MaxLogs
    /\ Put(i, LogEvent(View(i), InstEventName(i, inst[i].calls + 1)), inst[i].calls + 1, inst[i].fails)
    /\ UNCHANGED <<now, globalSingleton, returned>>
    /\ InstFrame

\* flush() of instance i
InstFlush ==
  \E i \in 1..Len(inst) :
    /\ Put(i, FlushBuffer(View(i)), inst[i].calls, inst[i].fails)
    /\ UNCHANGED <<now, globalSingleton, returned>>
    /\ InstFrame

\* enable() of instance i
InstEnable ==
  \E i \in 1..Len(inst) :
    /\ ~heap[inst[i].cfg].enabled
    /\ heap' = [heap EXCEPT ![inst[i].cfg].enabled = TRUE]
    /\ UNCHANGED <<now, inst, globalSingleton, returned>>
    /\ InstFrame

\* disable() of instance i
InstDisable ==
  \E i \in 1..Len(inst) :
    /\ heap[inst[i].cfg].enabled
    /\ heap' = [heap EXCEPT ![inst[i].cfg].enabled = FALSE]
    /\ UNCHANGED <<now, inst, globalSingleton, returned>>
    /\ InstFrame

\* the timers of all instances that are due
InstDueTimers(i) == {t \in inst[i].timers : t.due <= now}

\* the event loop runs the callback of a timer of instance i, the
\* earliest one due
InstTimerFire ==
  \E i \in 1..Len(inst) :
    \E t \in InstDueTimers(i) :
      /\ \A j \in 1..Len(inst) : \A u \in InstDueTimers(j) : t.due <= u.due
      /\ LET S0 == [View(i) EXCEPT !.timers = @ \ {t}]
             S == IF t.kind = "flush"
                  THEN FlushBuffer(S0)
                  ELSE FlushBodyWithRetry(S0, t.body, t.batch, t.attempt)
         IN  Put(i, S, inst[i].calls, inst[i].fails)
      /\ UNCHANGED <<now, globalSingleton, returned>>
      /\ InstFrame

\* a fetch() call of instance i rejects
InstFetchReject ==
  \E i \in 1..Len(inst) :
    \E r \in inst[i].inflight :
      /\ InstFails < MaxFails
      /\ Put(i, FlushBodyContinue(View(i), r, "networkError"), inst[i].calls, inst[i].fails + 1)
      /\ UNCHANGED <<now, globalSingleton, returned>>
      /\ InstFrame

\* one millisecond passes; no timer of any instance is due
InstTick ==
  /\ now < MaxTime
  /\ \A i \in 1..Len(inst) : InstDueTimers(i) = {}
  /\ now' = now + 1
  /\ UNCHANGED instVars
  /\ InstFrame

\* an application with two loggers
NextPair ==
  \/ InstCreate
  \/ InstLog
  \/ InstFlush
  \/ InstEnable
  \/ InstDisable
  \/ InstTimerFire
  \/ InstFetchReject
  \/ InstTick

\* the single logger of the other specifications is not used here
InitInst == InitWith({c \in Configs : c.autoRetry})

SpecPair == InitInst /\ [][NextPair]_vars

\* an application that asks for the singleton again and again
NextSingle ==
  \/ InstSingleton
  \/ InstClearSingleton
  \/ InstLog
  \/ InstDisable

SpecSingle == InitInst /\ [][NextSingle]_vars

\* a logger with retries and a maxBuffer that is not reached, used by an
\* application that mutates the details object between its calls
DetailsConfigs ==
  {[c EXCEPT !.maxBuffer = MaxBufferCfg + 1] : c \in {k \in Configs : k.autoRetry}}

InitDetails == InitWith(DetailsConfigs)

NextDetails ==
  \/ Log
  \/ Mutate
  \/ Flush
  \/ TimerFire
  \/ FetchResolve
  \/ FetchReject
  \/ Tick

SpecDetails == InitDetails /\ [][NextDetails]_vars

TypeOK ==
  /\ config.enabled \in BOOLEAN
  /\ bufferTimeout \in Nat
  /\ now \in 0..MaxTime
  /\ Len(logged) <= calls
  /\ Len(promises) = Len(requests)

(* ------------------------------ claims --------------------------------- *)
Last(seq) == seq[Len(seq)]

\* the first attempts, in the order they were issued
FirstAttempts(reqs) == SelectSeq(reqs, LAMBDA r : r.attempt = 1)

\* the batches captured so far, read back from the request bodies
Batches == [i \in 1..Len(FirstAttempts(requests)) |-> Split(FirstAttempts(requests)[i].body)]

\* this step issued the first attempt of a new batch
NewFirstAttempt ==
  /\ Len(requests') = Len(requests) + 1
  /\ Last(requests').attempt = 1

\* the records this step appended (none or one)
NewRecords == SubSeq(logged', Len(logged) + 1, Len(logged'))

FlushTimers == {t \in timers : t.kind = "flush"}

\* C1: a flush of a non-empty buffer sends the whole buffer as one batch and
\* leaves the buffer empty in the same step; the body of every batch in
\* flight or awaiting retry stays the body of its first attempt, whatever is
\* logged meanwhile.
C1_Step ==
  /\ NewFirstAttempt =>
       /\ buffer' = <<>>
       /\ buffer \o NewRecords # <<>>
       /\ Last(requests').body = Join(buffer \o NewRecords)
       /\ Last(requests').batch = Len(FirstAttempts(requests)) + 1
  /\ \A r \in inflight' \cup {t \in timers' : t.kind = "retry"} :
       /\ r.batch \in 1..Len(FirstAttempts(requests'))
       /\ r.body = FirstAttempts(requests')[r.batch].body
  /\ SubSeq(requests', 1, Len(requests)) = requests
C1_FlushCapturesAndResets == [][C1_Step]_vars

\* a second batch was captured and records were logged while the first
\* batch is still in flight
C1_Witness ==
  /\ Len(FirstAttempts(requests)) >= 2
  /\ buffer # <<>>
  /\ \E r \in inflight : r.batch = 1

\* C2: the batches captured so far, in capture order, followed by the
\* buffer, are exactly the records logged while enabled, in call order.
C2_NothingLostOrDuplicated == Concat(Batches) \o buffer = logged

C2_Witness ==
  /\ Len(Batches) >= 2
  /\ buffer # <<>>

\* C3: a first attempt is issued only by an explicit flush(), by the log
\* call that brings the buffer to maxBuffer, or by the flush timer once
\* throttleDuration has elapsed since the last log call.
C3_Step ==
  NewFirstAttempt =>
    \/ Flush
    \/ Log /\ Len(buffer) + 1 >= config.maxBuffer
    \/ TimerFire /\ now >= lastLogAt + config.throttleDuration
C3_NoEarlySubmission == [][C3_Step]_vars

\* two records are buffered below maxBuffer, time has passed, nothing sent
C3_Witness ==
  /\ Len(buffer) = 2
  /\ Len(buffer) < config.maxBuffer
  /\ now > lastLogAt
  /\ now < lastLogAt + config.throttleDuration
  /\ requests = <<>>

\* C4: while no timer flush and no explicit flush has sent anything (every
\* batch so far is a full one), the
\* k-th batch is exactly the k-th run of maxBuffer logged records and is
\* sent by the log call that completes it; the rest is the buffer.
OnlyThresholdFlushes ==
  \A i \in 1..Len(Batches) : Len(Batches[i]) = config.maxBuffer

C4_ThresholdFlush ==
  OnlyThresholdFlushes =>
    LET m == config.maxBuffer
        n == Len(logged) \div m
    IN  /\ Len(Batches) = n
        /\ \A i \in 1..n : Batches[i] = SubSeq(logged, (i - 1) * m + 1, i * m)
        /\ buffer = SubSeq(logged, n * m + 1, Len(logged))

\* two full batches were sent by log calls alone
C4_Witness ==
  /\ OnlyThresholdFlushes
  /\ Len(Batches) = 2
  /\ Len(logged) = 2 * config.maxBuffer
  /\ buffer = <<>>

\* C5: the flush timer fires throttleDuration after the most recent log
\* call that recorded an event: such a call leaves one flush timer, due
\* throttleDuration later, and the timer's flush happens exactly then.
C5_Step ==
  /\ (logged' # logged /\ buffer' # <<>>) =>
       \E t \in timers' :
         /\ t.kind = "flush"
         /\ t.due = now + config.throttleDuration
         /\ \A u \in timers' : u.kind = "flush" => u = t
  /\ (TimerFire /\ FlushTimers' # FlushTimers) =>
       /\ now = lastLogAt + config.throttleDuration
       /\ NewFirstAttempt
C5_Debounce == [][C5_Step]_vars

\* logged at two different times; the first deadline has passed without a
\* flush and the second one is reached
C5_Witness ==
  /\ Len(buffer) = 2
  /\ firstLogAt < lastLogAt
  /\ now > firstLogAt + config.throttleDuration
  /\ now = lastLogAt + config.throttleDuration
  /\ requests = <<>>

\* C6: a non-empty buffer never sits longer than throttleDuration after the
\* last recording log call: its flush timer is armed and due by then, and
\* when the timer fires the whole buffer is sent as one batch, in call
\* order, whatever its length.
C6_Step ==
  /\ buffer' # <<>> =>
       /\ now' <= lastLogAt' + config.throttleDuration
       /\ \E t \in timers' : t.kind = "flush" /\ t.due = lastLogAt' + config.throttleDuration
  /\ (TimerFire /\ FlushTimers' # FlushTimers) =>
       /\ buffer # <<>>
       /\ requests' = Append(requests, [body |-> Join(buffer), attempt |-> 1,
                                        batch |-> Len(FirstAttempts(requests)) + 1])
       /\ Split(Last(requests').body) = buffer
       /\ buffer' = <<>>
C6_TimerFlush == [][C6_Step]_vars

\* the timer has flushed a buffer of two records, below maxBuffer
C6_Witness ==
  /\ Len(requests) = 1
  /\ Len(Batches[1]) = 2
  /\ Len(Batches[1]) < config.maxBuffer
  /\ now = config.throttleDuration
  /\ buffer = <<>>
  /\ settled
  /\ bufferTimeout = 0

\* C7: the buffer is never non-empty for longer than throttleDuration after
\* it became non-empty.
C7_MaxBufferedTime == buffer # <<>> => now - firstLogAt <= config.throttleDuration

\* C8: flush() on an empty buffer issues no request, arms no timer, changes
\* nothing in flight and returns a resolved promise.
C8_Step ==
  (Flush /\ buffer = <<>>) =>
    /\ requests' = requests
    /\ inflight' = inflight
    /\ timers' = timers
    /\ buffer' = <<>>
    /\ settled'
C8_EmptyFlushIsNoOp == [][C8_Step]_vars

\* a batch was sent by an explicit flush (it is short and the timer was not
\* due yet) and is still in flight; a second flush(), on the empty buffer,
\* has returned a resolved promise and there is still one request
C8_Witness ==
  /\ settled
  /\ buffer = <<>>
  /\ inflight # {}
  /\ Len(requests) = 1
  /\ Len(Batches[1]) < config.maxBuffer
  /\ now < config.throttleDuration

\* C9: flush() cancels the flush timer: after a flush() no flush timer is
\* pending, and any flush timer that is pending belongs to the current
\* buffer and is due throttleDuration after its last log call.
C9_Step ==
  /\ Flush => (FlushTimers' = {} /\ bufferTimeout' = 0)
  /\ \A t \in FlushTimers' :
       /\ buffer' # <<>>
       /\ t.id = bufferTimeout'
       /\ t.due = lastLogAt' + config.throttleDuration
C9_FlushCancelsTimer == [][C9_Step]_vars

\* a record logged after an explicit flush is still buffered when the
\* deadline of the flushed records has passed
C9_Witness ==
  /\ Len(requests) = 1
  /\ ~settled
  /\ Len(buffer) = 1
  /\ lastLogAt > 0
  /\ now >= config.throttleDuration
  /\ now < lastLogAt + config.throttleDuration

\* C10: a rejected attempt with autoRetry on schedules exactly one retry
\* timer, due autoRetryDuration later and carrying the rejected body; when
\* it fires, at its due time, the next attempt of the same batch is issued
\* with the body of the first attempt.
C10_Step ==
  /\ (FetchReject /\ config.autoRetry) =>
       \E r \in inflight \ inflight' :
         timers' \ timers = {t \in timers' : /\ t.kind = "retry"
                                             /\ t.due = now + config.autoRetryDuration
                                             /\ t.body = r.body
                                             /\ t.batch = r.batch
                                             /\ t.attempt = r.attempt + 1
                                             /\ t \notin timers}
         /\ Cardinality(timers' \ timers) = 1
         /\ timers \subseteq timers'
         /\ requests' = requests
  /\ (Len(requests') > Len(requests) /\ Last(requests').attempt > 1) =>
       \E t \in timers \ timers' :
         /\ t.kind = "retry"
         /\ t.due = now
         /\ Last(requests').body = t.body
         /\ Last(requests').batch = t.batch
         /\ Last(requests').attempt = t.attempt
         /\ Last(requests').body = FirstAttempts(requests)[t.batch].body
         /\ Cardinality({i \in 1..Len(requests') : requests'[i].batch = t.batch
                                                  /\ requests'[i].attempt = t.attempt}) = 1
C10_RetryOnce == [][C10_Step]_vars

\* the retry of a rejected batch has been issued
C10_Witness ==
  /\ config.autoRetry
  /\ fails = 1
  /\ Len(requests) >= 2
  /\ Last(requests).attempt = 2

\* C11: once an attempt of a batch has succeeded, that batch is finished:
\* no attempt of it is in flight, no retry timer of it is pending and no
\* later attempt of it was ever issued.
C11_SuccessEndsBatch ==
  \A s \in succeeded :
    /\ \A r \in inflight : r.batch # s.batch
    /\ \A t \in timers : t.kind = "retry" => t.batch # s.batch
    /\ \A i \in 1..Len(requests) :
         requests[i].batch = s.batch => requests[i].attempt <= s.attempt
    /\ \A u \in succeeded : u.batch = s.batch => u = s

\* a batch was rejected, retried and then accepted; the time at which one
\* more retry would have been due has passed
C11_Witness ==
  \E s \in succeeded :
    /\ s.attempt = 2
    /\ \E i \in 1..Len(requests) :
         /\ requests[i].batch = s.batch
         /\ requests[i].attempt = 2
    /\ now >= 2 * config.autoRetryDuration

\* the records of every request issued so far, in the order sent
Submitted == Concat([i \in 1..Len(requests) |-> Split(requests[i].body)])

NoDuplicates(seq) == \A i, j \in 1..Len(seq) : seq[i] = seq[j] => i = j

\* C12: with autoRetry off a rejected attempt schedules nothing and puts
\* nothing back into the buffer; every batch is attempted once, and no
\* record is ever part of two requests.
C12_Step ==
  (FetchReject /\ ~config.autoRetry) =>
    /\ timers' = timers
    /\ requests' = requests
    /\ buffer' = buffer
    /\ \E r \in inflight : inflight' = inflight \ {r}
C12_Once ==
  ~config.autoRetry =>
    /\ \A i \in 1..Len(requests) : requests[i].attempt = 1
    /\ \A t \in timers : t.kind # "retry"
    /\ NoDuplicates(Submitted)
C12_DropWithoutRetry == [][C12_Step]_vars /\ []C12_Once

\* the first batch was rejected and dropped, a later batch was accepted,
\* and the time at which a retry would have been due has passed
C12_Witness ==
  /\ ~config.autoRetry
  /\ fails = 1
  /\ Len(requests) = 2
  /\ succeeded = {[batch |-> 2, attempt |-> 1]}
  /\ inflight = {}
  /\ now >= config.autoRetryDuration

\* the retry policy, applied to the call that left flight in this step
RetryPolicyApplied ==
  \E r \in inflight :
    /\ inflight' = inflight \ {r}
    /\ requests' = requests
    /\ buffer' = buffer
    /\ IF config.autoRetry
       THEN \E t \in timers' \ timers :
              /\ timers' = timers \cup {t}
              /\ t.kind = "retry"
              /\ t.body = r.body
              /\ t.batch = r.batch
              /\ t.due = now + config.autoRetryDuration
       ELSE timers' = timers

\* C13: an attempt that ends in a non-success HTTP response is handled by
\* the retry policy exactly as one that ends in a network error: one retry
\* timer for the same body with autoRetry on, nothing at all with it off.
C13_Step ==
  \A c \in {"networkError", "httpError"} :
    (FetchReject /\ failure' = c) => RetryPolicyApplied
C14_NeverRejects == \A i \in 1..Len(promises) : promises[i] # "rejected"

\* the batch sent by a log call at the threshold failed, and so did nothing
\* else; the promise of that flush is resolved
C14_Witness ==
  /\ fails = 1
  /\ succeeded = {}
  /\ inflight = {}
  /\ Len(requests) = 1
  /\ Len(Batches[1]) = config.maxBuffer
  /\ promises[1] = "resolved"

\* C15: the promise flush() returns for a captured batch is pending exactly
\* while the first attempt of the batch is in flight: it resolves when that
\* attempt settles, also with a retry scheduled or in flight.
C15_ResolvesWithFirstAttempt ==
  \A i \in 1..Len(requests) :
    requests[i].attempt = 1 =>
      (promises[i] = "pending" <=>
         \E r \in inflight : r.batch = requests[i].batch /\ r.attempt = 1)

\* the first attempt failed and its retry is still waiting for its timer,
\* yet the promise of flush() is resolved
C15_Witness ==
  /\ Len(requests) = 1
  /\ promises[1] = "resolved"
  /\ \E t \in timers : t.kind = "retry" /\ t.batch = 1 /\ t.due > now

\* the event name occurs in the text
Mentions(text, eventName) == \E k \in 1..Len(text) : text[k] = eventName

\* C16: a log call made while the logger is disabled changes neither the
\* buffer nor any timer, calls no interceptor and issues no request; one
\* made while enabled calls the interceptor once and appends its record
\* (which the same call may flush at the threshold).  The event of a
\* disabled call is in no buffer and no request ever after.
C16_Step ==
  /\ (Log /\ ~config.enabled) =>
       /\ buffer' = buffer
       /\ timers' = timers
       /\ bufferTimeout' = bufferTimeout
       /\ requests' = requests
       /\ inflight' = inflight
       /\ intercepted' = intercepted
  /\ (Log /\ config.enabled) =>
       LET rec == Stringify(BuildSplunkMeta(Cur), EventName(calls + 1), details)
       IN  /\ intercepted' = Append(intercepted, EventName(calls + 1))
           /\ \/ buffer' = buffer \o <<rec>> /\ requests' = requests
              \/ /\ buffer' = <<>>
                 /\ requests' = Append(requests, Last(requests'))
                 /\ Last(requests').body = Join(buffer \o <<rec>>)
C16_DroppedForGood ==
  \A e \in dropped :
    /\ \A i \in 1..Len(buffer) : ~Mentions(buffer[i], e)
    /\ \A i \in 1..Len(requests) : ~Mentions(requests[i].body, e)
C16_RecordsOnlyWhenEnabled == [][C16_Step]_vars /\ []C16_DroppedForGood

\* the first log call was made while disabled; after enable() another one
\* was recorded and sent, and the clock has run out
C16_Witness ==
  /\ dropped = {EventName(1)}
  /\ config.enabled
  /\ Len(logged) >= 1
  /\ Len(requests) >= 1
  /\ buffer = <<>>
  /\ now = MaxTime

\* C17: an assignment to the details object after a log call changes no
\* buffered record and no body sent or awaiting retry; every request,
\* retries included, carries the records as serialized by their log calls,
\* and a log call made after the assignment records the new value.
C17_Step ==
  /\ Mutate =>
       /\ buffer' = buffer
       /\ requests' = requests
       /\ inflight' = inflight
       /\ timers' = timers
  /\ Log => \A i \in 1..Len(NewRecords) : FooOf(NewRecords[i]) = Digits(details)
C17_AsLogged ==
  /\ Concat(Batches) \o buffer = logged
  /\ \A i \in 1..Len(requests) :
       requests[i].body = FirstAttempts(requests)[requests[i].batch].body
C17_FixedAtCallTime == [][C17_Step]_vars /\ []C17_AsLogged

\* logged, then the details object was mutated, then logged again: the
\* first record went out with the old value, also in its retry, and the
\* second record carries the new value
C17_Witness ==
  /\ details = 1
  /\ Len(logged) = 2
  /\ FooOf(logged[1]) = Digits(0)
  /\ FooOf(logged[2]) = Digits(1)
  /\ Len(requests) >= 2
  /\ Last(requests).attempt = 2
  /\ Last(requests).body = logged[1]

\* the calls of Logger.singleton in the trace
SingletonCalls == {i \in 1..Len(trace) : trace[i].op = "singleton"}

\* clearSingleton was called between the calls i and j
ClearedBetween(i, j) == \E k \in (i+1)..(j-1) : trace[k].op = "clear"

\* C18: two Logger.singleton calls with no clearSingleton between them
\* return the same logger; the first singleton call after a clearSingleton
\* returns a logger that no earlier call of singleton or create returned.
C18_SingletonUntilCleared ==
  \A j \in SingletonCalls :
    /\ \A i \in SingletonCalls :
         (i < j /\ ~ClearedBetween(i, j)) => trace[j].logger = trace[i].logger
    /\ (\A i \in SingletonCalls : i < j => ClearedBetween(i, j)) =>
         \A k \in 1..(j-1) : trace[k].logger # trace[j].logger
    /\ trace[j].logger \in 1..Len(loggers)

\* singleton twice, then clearSingleton, then singleton again
C18_Witness ==
  /\ Len(trace) = 4
  /\ trace[1].op = "singleton"
  /\ trace[2].op = "singleton"
  /\ trace[3].op = "clear"
  /\ trace[4].op = "singleton"
  /\ trace[2].logger = trace[1].logger
  /\ trace[4].logger # trace[1].logger

\* C19: every attempt, first or retry, is one fetch() call: a POST to
\* config.splunkUrl whose only header is Authorization: "Splunk " followed
\* by config.authToken and whose body is the body of the batch.
C19_EveryAttemptIsOnePost ==
  /\ Len(sent) = Len(requests)
  /\ \A i \in 1..Len(requests) :
       /\ sent[i].url = config.splunkUrl
       /\ sent[i].method = "POST"
       /\ sent[i].headers = {<<"Authorization", "Splunk " \o config.authToken>>}
       /\ sent[i].body = FirstAttempts(requests)[requests[i].batch].body
       /\ sent[i].body = Join(Batches[requests[i].batch])
       /\ \A j \in 1..Len(requests) :
            (requests[j].batch = requests[i].batch /\
             requests[j].attempt = requests[i].attempt) => j = i

\* a first attempt and its retry, as the tests see them
C19_Witness ==
  /\ Len(sent) = 2
  /\ requests[2].attempt = 2
  /\ sent[2].url = "http://foo-bar"
  /\ sent[2].headers = {<<"Authorization", "Splunk FOO-TOKEN">>}
  /\ sent[2].body = sent[1].body
  /\ Len(Split(sent[2].body)) = 2

\* the names of the logging methods of a logger
MethodNames(logger) == {m[1] : m \in logger.methods}

\* C20: a logger created with log types has one logging method per given
\* type, one created without log types has exactly debug, info, warn and
\* error; the event built by the method T carries logType = T and the
\* eventName given to the call.
C20_MethodPerLogType ==
  /\ \A i \in 1..Len(loggers) :
       MethodNames(loggers[i]) =
         IF Len(loggers[i].given) # 0
         THEN {loggers[i].given[k] : k \in 1..Len(loggers[i].given)}
         ELSE {"debug", "info", "warn", "error"}
  /\ called # NoCall =>
       /\ Get(called.event, "logType") = called.method
       /\ Get(called.event, "eventName") = called.eventName

\* the user's splunkMeta as it was at the i-th recorded call
UserMeta(i) == MetaOf(splunkMeta, recorded[i].at)

Has(obj, key) == \E q \in obj : q[1] = key

\* C21: every envelope has time, sourcetype and source: the user's value
\* where splunkMeta (object, or factory called at the log call) has the
\* key, else the current time, '_json' and 'kersplunk-<version>'; every
\* other key of splunkMeta is in the envelope; fields is the user's fields
\* with kersplunk set to the version.
C21_Envelope ==
  \A i \in 1..Len(recorded) :
    LET env == recorded[i].envelope
        meta == UserMeta(i)
        userFields == IF Has(meta, "fields") THEN Get(meta, "fields") ELSE {}
    IN  /\ Get(env, "time") = IF Has(meta, "time") THEN Get(meta, "time") ELSE recorded[i].at
        /\ Get(env, "sourcetype") = IF Has(meta, "sourcetype") THEN Get(meta, "sourcetype")
                                    ELSE "_json"
        /\ Get(env, "source") = IF Has(meta, "source") THEN Get(meta, "source")
                                ELSE "kersplunk-0.0.12"
        /\ \A q \in meta : q[1] # "fields" => q \in env
        /\ Get(Get(env, "fields"), "kersplunk") = "0.0.12"
        /\ \A q \in userFields : q[1] # "kersplunk" => q \in Get(env, "fields")
        /\ \A q \in Get(env, "fields") : q[1] = "kersplunk" \/ q \in userFields

\* two envelopes recorded at different times under the factory that reads
\* the clock: each has the time the factory returned at its call
C21_Witness ==
  /\ splunkMeta = [kind |-> "factory", name |-> "clock"]
  /\ Len(recorded) = 2
  /\ recorded[1].at < recorded[2].at
  /\ Get(recorded[2].envelope, "time") = recorded[2].at + 1000
  /\ Get(recorded[2].envelope, "host") = "my host"
  /\ Get(recorded[2].envelope, "fields") = {<<"kersplunk", "0.0.12">>}

\* the details with every Error in them, at any depth, replaced by what
\* the errorFormatter returns for it
\* the properties that hold an object in the inputs above; every other
\* property holds a string
ObjectKeys == {"here", "my"}

RECURSIVE DeepFormat(_)
DeepFormat(d) ==
  IF d.isError THEN ErrorFormatter(d)
  ELSE {<<q[1], IF q[1] \in ObjectKeys
                THEN [isError |-> FALSE, props |-> DeepFormat(q[2])]
                ELSE q[2]>> : q \in d.props}

\* C22: the event of a log call is {logType, eventName} with the details
\* spread in, every Error inside the details, at any depth, replaced by
\* errorFormatter(error).
C22_DeepErrorFormat ==
  called # NoCall =>
    called.event = Spread({<<"logType", called.method>>, <<"eventName", called.eventName>>},
                          DeepFormat(called.details))

\* what the interceptor named f makes of a call info("evt", d), written out
InterceptedEvent(f, d) ==
  LET e == {q \in {<<"logType", "info">>, <<"eventName", "evt">>} :
              \A o \in ErrorFormatter(d) : o[1] # q[1]} \cup ErrorFormatter(d)
  IN  CASE f = "none" -> e
        [] f = "addBar" -> {q \in e : q[1] # "newDetails"} \cup {<<"newDetails", "bar">>}
        [] f = "onlyName" -> {q \in e : q[1] = "eventName"}

\* a log call appends one record whose event is what the interceptor set
\* on the logger before the call returns; no step changes an earlier record
C23_Step ==
  /\ Len(recorded') >= Len(recorded)
  /\ \A i \in 1..Len(recorded) : recorded'[i] = recorded[i]
  /\ Len(recorded') > Len(recorded) =>
       /\ Len(recorded') = Len(recorded) + 1
       /\ Get(Last(recorded').envelope, "event")
            = InterceptedEvent(interceptor, Last(recorded').details)

\* C23: the logged event is the interceptor's result for {logType,
\* eventName, ...details}, with the interceptor that is set on the logger
\* at the moment of the call (from the configuration or assigned later);
\* changing the interceptor leaves the records already buffered as they are.
C23_InterceptorAtCallTime == [][C23_Step]_vars

\* two calls with the same details, the first under the adding interceptor
\* and the second after the interceptor was taken away: only the first
\* record has the added property
C23_Witness ==
  /\ Len(recorded) = 2
  /\ interceptor = "onlyName"
  /\ recorded[1].details = recorded[2].details
  /\ Has(Get(recorded[1].envelope, "event"), "newDetails")
  /\ recorded[2].interceptor = "none"
  /\ ~Has(Get(recorded[2].envelope, "event"), "newDetails")

\* the retry timers that are pending
RetryTimers == {t \in timers : t.kind = "retry"}

\* C24: in every reachable state at most one automatic-flush timer is
\* outstanding.
C24_OneFlushTimer == Cardinality(FlushTimers) <= 1

\* the flush timer was re-armed by a second log call while the retry timer
\* of an earlier batch is pending: two timers, one of them a flush timer
C24_Witness ==
  /\ Cardinality(FlushTimers) = 1
  /\ RetryTimers # {}
  /\ Len(buffer) >= 2
  /\ firstLogAt < lastLogAt

\* C25: between operations the flush timer is armed exactly when the
\* buffer is non-empty: with records buffered the timer the logger holds
\* is pending, with none buffered no flush timer exists and no handle is
\* held.
C25_TimerIffBuffer ==
  /\ buffer # <<>> => \E t \in FlushTimers : t.id = bufferTimeout
  /\ buffer = <<>> => FlushTimers = {} /\ bufferTimeout = 0

\* a disabled logger that still holds a record logged before disable():
\* its timer stays armed, and a dropped call has not touched it
C25_Witness ==
  /\ ~config.enabled
  /\ dropped # {}
  /\ buffer # <<>>
  /\ FlushTimers # {}
  /\ requests # <<>>

\* each batch has at most one thing outstanding
C27_AtMostOne ==
  \A b \in 1..Len(FirstAttempts(requests)) :
    Cardinality({r \in inflight : r.batch = b})
      + Cardinality({t \in RetryTimers : t.batch = b}) <= 1

\* a rejection with autoRetry on leaves exactly one retry timer of the
\* batch and no attempt of it in flight; a retry timer that fires is gone
\* and leaves exactly one attempt of the batch in flight
C27_Step ==
  /\ (FetchReject /\ config.autoRetry) =>
       \E r \in inflight \ inflight' :
         /\ Cardinality({t \in RetryTimers' : t.batch = r.batch}) = 1
         /\ {q \in inflight' : q.batch = r.batch} = {}
  /\ \A t \in RetryTimers \ RetryTimers' :
       /\ TimerFire
       /\ {u \in timers' : u.id = t.id} = {}
       /\ {u \in RetryTimers' : u.batch = t.batch} = {}
       /\ Cardinality({q \in inflight' : q.batch = t.batch}) = 1

\* C27: for each batch at most one of an in-flight attempt and a pending
\* retry timer exists at any time; a failed attempt schedules exactly one
\* retry, and the retry timer is gone once it has fired.
C27_OneOutstandingPerBatch == [][C27_Step]_vars /\ []C27_AtMostOne

\* the retry timer of the first batch is pending while the second batch
\* is in flight
C27_Witness ==
  /\ \E t \in RetryTimers : t.batch = 1
  /\ \E r \in inflight : r.batch = 2
  /\ Len(requests) = 2

\* the position of the record rec among the records logged
LoggedAt(rec) == CHOOSE k \in 1..Len(logged) : logged[k] = rec

\* the fetch() calls of first attempts come in the order their records
\* were logged
C30_InCaptureOrder ==
  \A i, j \in 1..Len(sent) :
    (i < j /\ requests[i].attempt = 1 /\ requests[j].attempt = 1) =>
      \A k \in 1..Len(Split(sent[i].body)), m \in 1..Len(Split(sent[j].body)) :
        LoggedAt(Split(sent[i].body)[k]) < LoggedAt(Split(sent[j].body)[m])

\* the step that empties the buffer is the step that issues its fetch()
C30_Step ==
  ((buffer # <<>> \/ logged' # logged) /\ buffer' = <<>>) =>
    /\ Len(sent') = Len(sent) + 1
    /\ Split(Last(sent').body) = buffer \o NewRecords
    /\ Last(requests').attempt = 1

\* C30: the first attempt of a batch captured earlier is issued before the
\* first attempt of every batch captured later; nothing orders their
\* completions.
C30_FirstAttemptsInOrder == [][C30_Step]_vars /\ []C30_InCaptureOrder

\* the second batch has been accepted while the first one is still in
\* flight
C30_Witness ==
  /\ \E r \in inflight : r.batch = 1 /\ r.attempt = 1
  /\ \E a \in succeeded : a.batch = 2
  /\ \A a \in succeeded : a.batch # 1
  /\ fails = 0

\* the attempts of batch b issued so far
AttemptsOf(b) == {i \in 1..Len(requests) : requests[i].batch = b}

\* a rejection under autoRetry schedules the next attempt of the batch,
\* whatever the number of the rejected attempt, autoRetryDuration from now
C26_Step ==
  (FetchReject /\ config.autoRetry) =>
    \E r \in inflight \ inflight' :
      \E t \in timers' \ timers :
        /\ t.kind = "retry"
        /\ t.batch = r.batch
        /\ t.attempt = r.attempt + 1
        /\ t.body = r.body
        /\ t.due = now + config.autoRetryDuration

\* a pending retry is the next attempt after all the attempts made, and is
\* never further away than autoRetryDuration
C26_NextInLine ==
  \A t \in RetryTimers :
    /\ t.attempt = Cardinality(AttemptsOf(t.batch)) + 1
    /\ t.due <= now + config.autoRetryDuration

\* C26: with autoRetry on there is no cap on the retries and no backoff:
\* after k consecutive failures of a batch the (k+1)-th attempt is
\* scheduled, each retry exactly autoRetryDuration after the failure.
C26_NoCapNoBackoff == [][C26_Step]_vars /\ []C26_NextInLine

\* three attempts of one batch have failed in a row and the fourth is
\* scheduled
C26_Witness ==
  /\ fails = 3
  /\ Cardinality(AttemptsOf(1)) = 3
  /\ \E t \in RetryTimers : t.batch = 1 /\ t.attempt = 4 /\ t.due = now + config.autoRetryDuration

\* C28: autoRetry is read when an attempt fails, not when the batch is
\* flushed: a rejection while it is true schedules a retry, a rejection
\* while it is false schedules none and leaves nothing of the batch
\* outstanding, also when earlier failures of the batch were retried.
C28_Step ==
  FetchReject =>
    \E r \in inflight \ inflight' :
      /\ {q \in inflight' : q.batch = r.batch} = {}
      /\ requests' = requests
      /\ IF config.autoRetry
         THEN \E t \in RetryTimers' \ RetryTimers : t.batch = r.batch
         ELSE timers' = timers /\ {t \in RetryTimers' : t.batch = r.batch} = {}
C28_ReadAtFailure == [][C28_Step]_vars

\* the first failure of the batch was retried; autoRetry was then switched
\* off and the second failure was not
C28_Witness ==
  /\ ~config.autoRetry
  /\ fails = 2
  /\ Len(requests) = 2
  /\ Last(requests).attempt = 2
  /\ inflight = {}
  /\ timers = {}
  /\ succeeded = {}

\* C29: a scheduled retry cannot be cancelled: whatever happens
\* meanwhile, flush(), log calls, disable() or autoRetry switched off, its
\* timer stays pending until it fires at its due time, and firing issues
\* the attempt.
C29_Step ==
  \A t \in RetryTimers :
    \/ t \in timers'
    \/ /\ TimerFire
       /\ now = t.due
       /\ Len(requests') = Len(requests) + 1
       /\ Last(requests') = [body |-> t.body, batch |-> t.batch, attempt |-> t.attempt]
       /\ \E r \in inflight' \ inflight : r.batch = t.batch /\ r.attempt = t.attempt
C29_RetryNotCancellable == [][C29_Step]_vars

\* the retry of the rejected batch is in flight on a logger that was
\* disabled, had autoRetry switched off, dropped a log call and had
\* flush() called on its empty buffer
C29_Witness ==
  /\ ~config.enabled
  /\ ~config.autoRetry
  /\ dropped # {}
  /\ settled
  /\ fails = 1
  /\ Len(requests) = 2
  /\ Last(requests).attempt = 2
  /\ inflight # {}

\* a recording log call appends its record, or sends it with the buffer
\* when the threshold is reached; a flush of a non-empty buffer issues its
\* request in the same step; issuing a first attempt adds it to the
\* attempts in flight and touches no other attempt and no retry timer
C31_Step ==
  /\ (Log /\ config.enabled) =>
       /\ Len(logged') = Len(logged) + 1
       /\ \/ buffer' = Append(buffer, Last(logged'))
          \/ /\ Len(buffer) + 1 >= config.maxBuffer
             /\ buffer' = <<>>
             /\ NewFirstAttempt
             /\ Last(requests').body = Join(Append(buffer, Last(logged')))
  /\ (Flush /\ buffer # <<>>) =>
       /\ NewFirstAttempt
       /\ Last(requests').body = Join(buffer)
  /\ NewFirstAttempt =>
       /\ Last(requests') \notin inflight
       /\ inflight' = inflight \cup {Last(requests')}
       /\ RetryTimers' = RetryTimers

\* C31: submission and accumulation are decoupled: with any number of
\* earlier batches in flight or awaiting retry a log call still appends to
\* the buffer and a flush, explicit, by threshold or by timer, issues its
\* request at once; several batches are in flight together and none
\* delays another.
C31_Decoupled == [][C31_Step]_vars

\* two batches are in flight at once and the buffer holds a further record
C31_Witness ==
  /\ Cardinality(inflight) = 2
  /\ \A r \in inflight : r.attempt = 1
  /\ buffer # <<>>
  /\ fails = 0
  /\ succeeded = {}

\* C33: between operations the buffer holds fewer than maxBuffer records
\* (maxBuffer >= 1), whatever log calls, flushes, timer firings and failed
\* or slow submissions came before.
C33_BelowThreshold == config.maxBuffer >= 1 => Len(buffer) < config.maxBuffer

\* the buffer is one record short of maxBuffer again after a threshold
\* flush whose batch was rejected
C33_Witness ==
  /\ Len(buffer) = config.maxBuffer - 1
  /\ Len(Batches) = 1
  /\ Len(Batches[1]) = config.maxBuffer
  /\ fails = 1
  /\ inflight = {}

\* C34: no request has an empty body, and every request carries at least
\* one and at most maxBuffer records, whether an explicit, a threshold or
\* a timer flush made it.
C34_BatchSize ==
  \A i \in 1..Len(sent) :
    /\ sent[i].body # <<>>
    /\ requests[i].body = sent[i].body
    /\ Len(Split(sent[i].body)) >= 1
    /\ Len(Split(sent[i].body)) <= config.maxBuffer
    /\ \A k \in 1..Len(Split(sent[i].body)) : Split(sent[i].body)[k] # <<>>

\* a batch of maxBuffer records made by the threshold, then two batches
\* of one record made by flush() or the timer
C34_Witness ==
  /\ Len(Batches) = 3
  /\ Len(Batches[1]) = config.maxBuffer
  /\ Len(Batches[2]) = 1
  /\ Len(Batches[3]) = 1
  /\ buffer = <<>>

\* the records of the batches captured so far, as they were logged: the
\* logged records that are no longer in the buffer
Captured == SubSeq(logged, 1, Len(logged) - Len(buffer))

\* every body sent or awaiting retry is the body of the first attempt of
\* its batch; the first attempts, in order, cut the captured records into
\* consecutive pieces, and the rest of the logged records is the buffer
C35_OneBatchPerBody ==
  /\ \A i \in 1..Len(sent) :
       /\ requests[i].batch \in 1..Len(Batches)
       /\ Split(sent[i].body) = Batches[requests[i].batch]
  /\ \A t \in RetryTimers :
       /\ t.batch \in 1..Len(Batches)
       /\ Split(t.body) = Batches[t.batch]
       /\ \A u \in RetryTimers : u.batch = t.batch => u = t
  /\ Concat(Batches) = Captured
  /\ Captured \o buffer = logged

\* a first attempt carries the whole buffer of that moment and nothing
\* else; a later attempt carries what the fired retry timer held
C35_Step ==
  Len(requests') > Len(requests) =>
    /\ Len(requests') = Len(requests) + 1
    /\ IF Last(requests').attempt = 1
       THEN Split(Last(sent').body) = buffer \o NewRecords
       ELSE \E t \in RetryTimers \ RetryTimers' :
              /\ t.batch = Last(requests').batch
              /\ t.body = Last(sent').body
              /\ buffer' = buffer

\* C35: every request body, of a first attempt or of a retry, is exactly
\* one captured batch: batches are not merged, split or mixed with the
\* records of the buffer, also while several failed batches await their
\* retry, each on a timer of its own.
C35_BodiesAreBatches == [][C35_Step]_vars /\ []C35_OneBatchPerBody

\* two batches have failed and both are in flight again, each retried by
\* a timer of its own
C35_Witness ==
  /\ Len(requests) = 4
  /\ Len(Batches) = 2
  /\ fails = 2
  /\ Cardinality(inflight) = 2
  /\ \A r \in inflight : r.attempt = 2

\* disable() changes the enabled flag only; on a disabled logger flush()
\* and the flush timer send the buffer as on an enabled one, a pending
\* retry timer stays until it fires and issues its attempt, and a
\* rejection is retried as autoRetry says
C38_Step ==
  /\ (config.enabled /\ ~config'.enabled) =>
       /\ buffer' = buffer
       /\ bufferTimeout' = bufferTimeout
       /\ timers' = timers
       /\ inflight' = inflight
       /\ requests' = requests
  /\ (~config.enabled /\ buffer # <<>> /\ (Flush \/ (TimerFire /\ FlushTimers' # FlushTimers))) =>
       /\ NewFirstAttempt
       /\ Split(Last(sent').body) = buffer
       /\ buffer' = <<>>
  /\ ~config.enabled =>
       \A t \in RetryTimers :
         \/ t \in timers'
         \/ /\ NewRecords = <<>>
            /\ Len(sent') = Len(sent) + 1
            /\ Last(sent').body = t.body
  /\ (~config.enabled /\ config.autoRetry /\ FetchReject) =>
       Cardinality(RetryTimers') = Cardinality(RetryTimers) + 1

\* a disabled logger with records holds their armed flush timer
C38_StillArmed ==
  (~config.enabled /\ buffer # <<>>) =>
    \E t \in FlushTimers : t.id = bufferTimeout /\ t.due = lastLogAt + config.throttleDuration

\* C38: disable() discards and cancels nothing that was accepted before:
\* the buffered records stay, with their flush timer armed, and are sent
\* by the timer or by flush() while the logger is disabled; pending
\* retries go on.
C38_DisableKeepsAccepted == [][C38_Step]_vars /\ []C38_StillArmed

\* a disabled logger that has dropped a call still holds a record, whose
\* flush timer is due now, while the retry of an earlier batch is pending
C38_Witness ==
  /\ ~config.enabled
  /\ dropped # {}
  /\ Len(buffer) = 1
  /\ \E t \in FlushTimers : t.due = now
  /\ RetryTimers # {}

\* the log calls that threw: they neither recorded nor were dropped
Thrown == calls - Len(logged) - Cardinality(dropped)

\* C39: a log call that throws while its record is built, in the
\* errorFormatter, the interceptor, the splunkMeta factory or the
\* serialization, leaves the buffer and the pending flush timer exactly
\* as they were and submits nothing.
C39_Step ==
  (calls' = calls + 1 /\ logged' = logged /\ dropped' = dropped) =>
    /\ buffer' = buffer
    /\ bufferTimeout' = bufferTimeout
    /\ timers' = timers
    /\ inflight' = inflight
    /\ requests' = requests
    /\ sent' = sent
    /\ config' = config
C39_FailedLogHasNoEffect == [][C39_Step]_vars

\* a call threw between two calls that recorded: the buffer holds the two
\* records and the timer armed by the second one
C39_Witness ==
  /\ Thrown = 1
  /\ calls = 3
  /\ Len(buffer) = 2
  /\ buffer[2] = Stringify(0, EventName(3), details)
  /\ \E t \in FlushTimers : t.id = bufferTimeout
  /\ requests = <<>>

\* the record of the k-th log call is in the buffer
InBuffer(k) == \E i \in 1..Len(buffer) : Mentions(buffer[i], EventName(k))

\* the record of the k-th log call is in the body of a fetch() call
HandedOver(k) == \E i \in 1..Len(sent) : Mentions(sent[i].body, EventName(k))

\* C36: every record appended to the buffer is handed to the transport in
\* some batch in the end, when due timers fire, whatever log calls follow:
\* the flush timer fires or the buffer reaches maxBuffer.
C36_EveryRecordHandedOver ==
  \A k \in 1..MaxLogs : InBuffer(k) ~> HandedOver(k)

\* two records, below maxBuffer, have been sent in one batch by the
\* timer that the second log call armed after time 0
C36_Witness ==
  /\ Len(sent) = 1
  /\ calls = 2
  /\ \A k \in 1..calls : HandedOver(k) /\ ~InBuffer(k)
  /\ settled
  /\ now = MaxTime
  /\ now > config.throttleDuration

\* batch b has been captured
IsCaptured(b) == Len(FirstAttempts(requests)) >= b

\* the attempts of batch b that the transport accepted
Successes(b) == {a \in succeeded : a.batch = b}

\* C37: with autoRetry on throughout, retry timers that fire and a
\* transport that does not fail forever, every captured batch is accepted
\* by the transport in the end, and no batch is accepted twice.
C37_EveryBatchSucceedsOnce ==
  /\ \A b \in 1..MaxLogs : IsCaptured(b) ~> (Successes(b) # {})
  /\ [](\A b \in 1..MaxLogs : Cardinality(Successes(b)) <= 1)

\* a batch was accepted at its second attempt, after another batch was
\* accepted at its first
C37_Witness ==
  /\ fails = 1
  /\ Len(FirstAttempts(requests)) = 2
  /\ \E a \in Successes(1) : a.attempt = 2
  /\ \E a \in Successes(2) : a.attempt = 1
  /\ inflight = {}
  /\ timers = {}

\* what instance i of the instances x holds, with the configuration
\* object it refers to on the heap h
EngineOf(h, x, i) ==
  [config |-> h[x[i].cfg], buffer |-> x[i].buffer, bufferTimeout |-> x[i].bufferTimeout,
   timers |-> x[i].timers, inflight |-> x[i].inflight, sent |-> x[i].sent]

\* a step changes one instance at most, and creating an instance changes
\* none of those that exist
C32_Step ==
  /\ \A i, j \in 1..Len(inst) :
       (i # j /\ EngineOf(heap', inst', i) # EngineOf(heap, inst, i)) =>
         EngineOf(heap', inst', j) = EngineOf(heap, inst, j)
  /\ Len(inst') > Len(inst) =>
       \A i \in 1..Len(inst) : EngineOf(heap', inst', i) = EngineOf(heap, inst, i)

\* every fetch() call of an instance goes to its own endpoint with
\* records of its own log calls only
C32_OwnRecords ==
  \A i \in 1..Len(inst) :
    \A k \in 1..Len(inst[i].sent) :
      /\ inst[i].sent[k].url = heap[inst[i].cfg].splunkUrl
      /\ \A j \in 1..Len(inst), n \in 1..MaxLogs :
           Mentions(inst[i].sent[k].body, InstEventName(j, n)) =>
             (j = i /\ n <= inst[i].calls)

\* C32: the instances made by Logger.create are independent: a log
\* call, flush, timer firing, retry, enable() or disable() on one
\* instance changes neither the buffer, the flush timer nor the enabled
\* flag of another, and submits none of its records.
C32_InstancesIndependent == [][C32_Step]_vars /\ []C32_OwnRecords

\* the first logger is disabled and holds a record with its timer; the
\* second, enabled, has sent a batch, had it rejected and retried
C32_Witness ==
  /\ Len(inst) = 2
  /\ ~heap[inst[1].cfg].enabled
  /\ heap[inst[2].cfg].enabled
  /\ Len(inst[1].buffer) = 1
  /\ inst[1].bufferTimeout # 0
  /\ inst[2].buffer = <<>>
  /\ Len(inst[2].sent) = 2
  /\ inst[2].fails = 1

\* this step is a call of Logger.singleton
SingletonCalled == returned'.seq = returned.seq + 1 /\ returned'.op = "singleton"

\* C40: while a singleton exists Logger.singleton(config2, ...types2)
\* returns it as it is: the later configuration and log types are ignored,
\* its configuration, methods, buffer and timer stay as they are; after
\* clearSingleton() the next call makes a logger from its own arguments.
C40_Step ==
  /\ (SingletonCalled /\ globalSingleton # 0) =>
       /\ returned'.logger = globalSingleton
       /\ globalSingleton' = globalSingleton
       /\ inst' = inst
       /\ heap' = heap
  /\ (SingletonCalled /\ globalSingleton = 0) =>
       /\ returned'.logger = Len(inst) + 1
       /\ globalSingleton' = Len(inst) + 1
       /\ Len(inst') = Len(inst) + 1
       /\ \A i \in 1..Len(inst) : EngineOf(heap', inst', i) = EngineOf(heap, inst, i)
       /\ \A k \in DOMAIN returned'.args[1] :
            heap'[inst'[Len(inst')].cfg][k] = returned'.args[1][k]
       /\ {m[1] : m \in inst'[Len(inst')].methods}
            = IF returned'.args[2] = <<>>
              THEN {DEFAULT_LOG_TYPES[i] : i \in 1..Len(DEFAULT_LOG_TYPES)}
              ELSE {returned'.args[2][i] : i \in 1..Len(returned'.args[2])}
  /\ (returned'.seq = returned.seq + 1 /\ returned'.op = "clear") =>
       /\ globalSingleton' = 0
       /\ inst' = inst
       /\ heap' = heap
C40_SingletonIgnoresLaterArguments == [][C40_Step]_vars

\* the singleton, made with the default log types, holds a record and its
\* timer; the last call asked for it with another maxBuffer and the log
\* types happy and sad, and got it back as it was
C40_Witness ==
  /\ globalSingleton = 1
  /\ Len(inst) = 1
  /\ returned.op = "singleton"
  /\ returned.seq = 2
  /\ returned.logger = 1
  /\ returned.args[2] = <<"happy", "sad">>
  /\ returned.args[1].maxBuffer # heap[inst[1].cfg].maxBuffer
  /\ <<"happy", "happy">> \notin inst[1].methods
  /\ Len(inst[1].buffer) = 1
  /\ inst[1].bufferTimeout # 0
====
